---- MODULE Spec2Model ----
(***************************************************************************)
(* Floor-plan engine of EduCosta85/floorplan: the geometry calculator      *)
(* (src/utils/floor-plan.utils.ts), the validation engine                  *)
(* (src/utils/validation.ts) and the statistics engine                     *)
(* (src/utils/statistics.ts), each a pure pass over one FloorPlan.         *)
(*                                                                         *)
(* Numbers: plan lengths are integers (plan units); every non-integer      *)
(* quantity (scale 0.2, waste factor 1.05, m2 conversions) is an exact     *)
(* rational [n, d] in lowest terms with d > 0.                             *)
(* Optional fields (TypeScript `x?: T`): None is <<>>, a present value v   *)
(* is <<v>>.                                                               *)
(***************************************************************************)
EXTENDS Integers, Sequences, FiniteSets, TLC

VARIABLES floorPlan, config, geometry, issues, stats, resolvedWalls, history, flooring64, editorState, dispatched, dispatchCount, cleanPlan, storage, clock, projectsCreated, lastCall, callCount

vars == <<floorPlan, config, geometry, issues, stats, resolvedWalls, history, flooring64, editorState, dispatched, dispatchCount, cleanPlan, storage, clock, projectsCreated, lastCall, callCount>>

----------------------------------------------------------------------------
(* Optional values and the ?? operator *)

None == <<>>

Some(v) == <<v>>

\* a ?? b
Nullish(opt, dflt) == IF opt = None THEN dflt ELSE opt[1]

----------------------------------------------------------------------------
(* Integer and rational arithmetic *)

Abs(a) == IF a < 0 THEN -a ELSE a

Max(a, b) == IF a >= b THEN a ELSE b

Min(a, b) == IF a <= b THEN a ELSE b

RECURSIVE GCD(_, _)
GCD(a, b) == IF b = 0 THEN a ELSE GCD(b, a % b)

\* n / d in lowest terms, d # 0
Rat(n, d) ==
  LET s == IF d < 0 THEN -1 ELSE 1
      g == GCD(Abs(n), Abs(d))
  IN  [n |-> (s * n) \div g, d |-> (s * d) \div g]

RInt(i) == [n |-> i, d |-> 1]

RMul(a, b) == Rat(a.n * b.n, a.d * b.d)

RDiv(a, b) == Rat(a.n * b.d, a.d * b.n)

RAdd(a, b) == Rat(a.n * b.d + b.n * a.d, a.d * b.d)

RSub(a, b) == Rat(a.n * b.d - b.n * a.d, a.d * b.d)

RLess(a, b) == a.n * b.d < b.n * a.d

RLeq(a, b) == a.n * b.d <= b.n * a.d

RMax(a, b) == IF RLess(a, b) THEN b ELSE a

RAbs(a) == [n |-> Abs(a.n), d |-> a.d]

\* Math.ceil of a rational, as an integer
Ceil(a) == -((-a.n) \div a.d)

----------------------------------------------------------------------------
(* floor-plan.utils.ts: defaults resolver *)

Sides == <<"north", "east", "south", "west">>

SideSet == {"north", "east", "south", "west"}

DEFAULT_WALL == [height |-> 280, thickness |-> 15]

DEFAULT_DOOR == [width |-> Some(80), height |-> Some(210)]

DEFAULT_WINDOW == [width |-> Some(120), height |-> Some(120), fromFloor |-> Some(100)]

\* defaults?.wall, defaults?.door, defaults?.window
DefaultsField(defaults, f) == IF defaults = None THEN None ELSE defaults[1][f]

\* defaults?.wall?.height and the like
DefaultsField2(defaults, f, g) ==
  IF DefaultsField(defaults, f) = None THEN None ELSE DefaultsField(defaults, f)[1][g]

\* variant: the plan-level default takes precedence over the wall's own value
resolveWall_DefaultsFirst(wall, defaults) ==
  [length    |-> Nullish(wall.length, 0),
   height    |-> Nullish(DefaultsField2(defaults, "wall", "height"),
                   Nullish(wall.height, DEFAULT_WALL.height)),
   thickness |-> Nullish(DefaultsField2(defaults, "wall", "thickness"),
                   Nullish(wall.thickness, DEFAULT_WALL.thickness)),
   exists    |-> Nullish(wall.exists, TRUE),
   openings  |-> Nullish(wall.openings, <<>>)]

resolveWall(wall, defaults) ==
  [length    |-> Nullish(wall.length, 0),
   height    |-> Nullish(wall.height,
                   Nullish(DefaultsField2(defaults, "wall", "height"), DEFAULT_WALL.height)),
   thickness |-> Nullish(wall.thickness,
                   Nullish(DefaultsField2(defaults, "wall", "thickness"), DEFAULT_WALL.thickness)),
   exists    |-> Nullish(wall.exists, TRUE),
   openings  |-> Nullish(wall.openings, <<>>)]

\* variant: the plan-level default takes precedence over the opening's own value
resolveOpening_DefaultsFirst(opening, defaults) ==
  LET isWindow == opening.type = "window"
      typeDefaults == IF isWindow
                      THEN Nullish(DefaultsField(defaults, "window"), DEFAULT_WINDOW)
                      ELSE Nullish(DefaultsField(defaults, "door"), DEFAULT_DOOR)
  IN  [type      |-> opening.type,
       offset    |-> opening.offset,
       width     |-> Nullish(typeDefaults.width,
                       Nullish(opening.width,
                         IF isWindow THEN DEFAULT_WINDOW.width[1] ELSE DEFAULT_DOOR.width[1])),
       height    |-> Nullish(typeDefaults.height,
                       Nullish(opening.height,
                         IF isWindow THEN DEFAULT_WINDOW.height[1] ELSE DEFAULT_DOOR.height[1])),
       fromFloor |-> Nullish(opening.fromFloor,
                       IF isWindow
                       THEN Nullish(DefaultsField2(defaults, "window", "fromFloor"),
                                    DEFAULT_WINDOW.fromFloor[1])
                       ELSE 0),
       to        |-> opening.to]

resolveOpening(opening, defaults) ==
  LET isWindow == opening.type = "window"
      typeDefaults == IF isWindow
                      THEN Nullish(DefaultsField(defaults, "window"), DEFAULT_WINDOW)
                      ELSE Nullish(DefaultsField(defaults, "door"), DEFAULT_DOOR)
  IN  [type      |-> opening.type,
       offset    |-> opening.offset,
       width     |-> Nullish(opening.width,
                       Nullish(typeDefaults.width,
                         IF isWindow THEN DEFAULT_WINDOW.width[1] ELSE DEFAULT_DOOR.width[1])),
       height    |-> Nullish(opening.height,
                       Nullish(typeDefaults.height,
                         IF isWindow THEN DEFAULT_WINDOW.height[1] ELSE DEFAULT_DOOR.height[1])),
       fromFloor |-> Nullish(opening.fromFloor,
                       IF isWindow
                       THEN Nullish(DefaultsField2(defaults, "window", "fromFloor"),
                                    DEFAULT_WINDOW.fromFloor[1])
                       ELSE 0),
       to        |-> opening.to]

\* The resolver as calculateWallGeometry applies it to one wall: the wall is resolved,
\* then each opening of the resolved wall
ResolveSide(wall, defaults) ==
  LET resolvedWall == resolveWall(wall, defaults)
  IN  [wall     |-> resolvedWall,
       openings |-> [j \in 1..Len(resolvedWall.openings) |->
                       resolveOpening(resolvedWall.openings[j], defaults)]]

----------------------------------------------------------------------------
(* floor-plan.utils.ts: geometry calculator *)

\* The scalar multiply `v * scale` of an integer plan value.
Scaled(v, scale) == RMul(RInt(v), scale)

\* variant: an opening that starts before the wall is moved to the wall's start
calculateOpeningGeometry_Clamped(room, side, roomWidth, roomHeight, opening, defaults, scale) ==
  LET resolvedOpening == resolveOpening(opening, defaults)
      offset == Max(0, resolvedOpening.offset)
      x == room.position.x
      y == room.position.y
  IN  [type      |-> resolvedOpening.type,
       x         |-> CASE side \in {"north", "south"} -> Scaled(x + offset, scale)
                       [] side = "east" -> Scaled(x + roomWidth, scale)
                       [] side = "west" -> Scaled(x, scale),
       y         |-> CASE side = "north" -> Scaled(y, scale)
                       [] side = "south" -> Scaled(y + roomHeight, scale)
                       [] side \in {"east", "west"} -> Scaled(y + offset, scale),
       width     |-> Scaled(resolvedOpening.width, scale),
       height    |-> Scaled(resolvedOpening.height, scale),
       fromFloor |-> Scaled(resolvedOpening.fromFloor, scale),
       to        |-> resolvedOpening.to,
       direction |-> side]

calculateOpeningGeometry(room, side, roomWidth, roomHeight, opening, defaults, scale) ==
  LET resolvedOpening == resolveOpening(opening, defaults)
      x == room.position.x
      y == room.position.y
      ox == CASE side = "north" -> Scaled(x + resolvedOpening.offset, scale)
              [] side = "south" -> Scaled(x + resolvedOpening.offset, scale)
              [] side = "east"  -> Scaled(x + roomWidth, scale)
              [] side = "west"  -> Scaled(x, scale)
      oy == CASE side = "north" -> Scaled(y, scale)
              [] side = "south" -> Scaled(y + roomHeight, scale)
              [] side = "east"  -> Scaled(y + resolvedOpening.offset, scale)
              [] side = "west"  -> Scaled(y + resolvedOpening.offset, scale)
  IN  [type      |-> resolvedOpening.type,
       x         |-> ox,
       y         |-> oy,
       width     |-> Scaled(resolvedOpening.width, scale),
       height    |-> Scaled(resolvedOpening.height, scale),
       fromFloor |-> Scaled(resolvedOpening.fromFloor, scale),
       to        |-> resolvedOpening.to,
       direction |-> side]

\* variant: the reported length is measured along the segment
calculateWallGeometry_LengthOfSegment(room, side, defaults, scale) ==
  LET wall == room.walls[side]
      resolved == resolveWall(wall, defaults)
      x == room.position.x
      y == room.position.y
      roomWidth == Max(Nullish(room.walls.north.length, 0), Nullish(room.walls.south.length, 0))
      roomHeight == Max(Nullish(room.walls.east.length, 0), Nullish(room.walls.west.length, 0))
      seg == CASE side = "north" -> [x1 |-> Scaled(x, scale), y1 |-> Scaled(y, scale),
                                     x2 |-> Scaled(x + roomWidth, scale), y2 |-> Scaled(y, scale)]
               [] side = "south" -> [x1 |-> Scaled(x, scale), y1 |-> Scaled(y + roomHeight, scale),
                                     x2 |-> Scaled(x + roomWidth, scale),
                                     y2 |-> Scaled(y + roomHeight, scale)]
               [] side = "east"  -> [x1 |-> Scaled(x + roomWidth, scale), y1 |-> Scaled(y, scale),
                                     x2 |-> Scaled(x + roomWidth, scale),
                                     y2 |-> Scaled(y + roomHeight, scale)]
               [] side = "west"  -> [x1 |-> Scaled(x, scale), y1 |-> Scaled(y, scale),
                                     x2 |-> Scaled(x, scale), y2 |-> Scaled(y + roomHeight, scale)]
  IN  [x1 |-> seg.x1, y1 |-> seg.y1, x2 |-> seg.x2, y2 |-> seg.y2,
       length    |-> Scaled(IF side \in {"north", "south"} THEN roomWidth ELSE roomHeight,
                           scale),
       thickness |-> Scaled(resolved.thickness, scale),
       exists    |-> resolved.exists,
       openings  |-> [k \in 1..Len(resolved.openings) |->
                        calculateOpeningGeometry(room, side, roomWidth, roomHeight,
                                                 resolved.openings[k], defaults, scale)]]

calculateWallGeometry(room, side, defaults, scale) ==
  LET wall == room.walls[side]
      resolved == resolveWall(wall, defaults)
      x == room.position.x
      y == room.position.y
      roomWidth == Max(Nullish(room.walls.north.length, 0), Nullish(room.walls.south.length, 0))
      roomHeight == Max(Nullish(room.walls.east.length, 0), Nullish(room.walls.west.length, 0))
      seg == CASE side = "north" -> [x1 |-> Scaled(x, scale), y1 |-> Scaled(y, scale),
                                     x2 |-> Scaled(x + roomWidth, scale), y2 |-> Scaled(y, scale)]
               [] side = "south" -> [x1 |-> Scaled(x, scale), y1 |-> Scaled(y + roomHeight, scale),
                                     x2 |-> Scaled(x + roomWidth, scale),
                                     y2 |-> Scaled(y + roomHeight, scale)]
               [] side = "east"  -> [x1 |-> Scaled(x + roomWidth, scale), y1 |-> Scaled(y, scale),
                                     x2 |-> Scaled(x + roomWidth, scale),
                                     y2 |-> Scaled(y + roomHeight, scale)]
               [] side = "west"  -> [x1 |-> Scaled(x, scale), y1 |-> Scaled(y, scale),
                                     x2 |-> Scaled(x, scale), y2 |-> Scaled(y + roomHeight, scale)]
  IN  [x1 |-> seg.x1, y1 |-> seg.y1, x2 |-> seg.x2, y2 |-> seg.y2,
       length    |-> Scaled(resolved.length, scale),
       thickness |-> Scaled(resolved.thickness, scale),
       exists    |-> resolved.exists,
       openings  |-> [k \in 1..Len(resolved.openings) |->
                        calculateOpeningGeometry(room, side, roomWidth, roomHeight,
                                                 resolved.openings[k], defaults, scale)]]

\* variant: the box takes the shorter of two opposite walls
calculateRoomGeometry_ShorterWall(room, defaults, scale) ==
  LET roomWidth == Min(Nullish(room.walls.north.length, 0), Nullish(room.walls.south.length, 0))
      roomHeight == Min(Nullish(room.walls.east.length, 0), Nullish(room.walls.west.length, 0))
  IN  [id     |-> room.id,
       name   |-> Nullish(room.name, room.id),
       x      |-> Scaled(room.position.x, scale),
       y      |-> Scaled(room.position.y, scale),
       width  |-> Scaled(roomWidth, scale),
       height |-> Scaled(roomHeight, scale),
       walls  |-> [north |-> calculateWallGeometry(room, "north", defaults, scale),
                   east  |-> calculateWallGeometry(room, "east", defaults, scale),
                   south |-> calculateWallGeometry(room, "south", defaults, scale),
                   west  |-> calculateWallGeometry(room, "west", defaults, scale)]]

calculateRoomGeometry(room, defaults, scale) ==
  LET roomWidth == Max(Nullish(room.walls.north.length, 0), Nullish(room.walls.south.length, 0))
      roomHeight == Max(Nullish(room.walls.east.length, 0), Nullish(room.walls.west.length, 0))
  IN  [id     |-> room.id,
       name   |-> Nullish(room.name, room.id),
       x      |-> Scaled(room.position.x, scale),
       y      |-> Scaled(room.position.y, scale),
       width  |-> Scaled(roomWidth, scale),
       height |-> Scaled(roomHeight, scale),
       walls  |-> [north |-> calculateWallGeometry(room, "north", defaults, scale),
                   east  |-> calculateWallGeometry(room, "east", defaults, scale),
                   south |-> calculateWallGeometry(room, "south", defaults, scale),
                   west  |-> calculateWallGeometry(room, "west", defaults, scale)]]

\* rooms.forEach(room => { maxX = Math.max(maxX, room.x + room.width) }), from maxX = 0
\* variant: the rooms' sizes are compared, their positions left out
RECURSIVE MaxExtent_SizeOnly(_, _, _, _)
MaxExtent_SizeOnly(rooms, k, acc, axis) ==
  IF k > Len(rooms) THEN acc
  ELSE MaxExtent_SizeOnly(rooms, k + 1,
                          RMax(acc, IF axis = "x" THEN rooms[k].width ELSE rooms[k].height),
                          axis)

RECURSIVE MaxExtent(_, _, _, _)
MaxExtent(rooms, k, acc, axis) ==
  IF k > Len(rooms) THEN acc
  ELSE MaxExtent(rooms, k + 1,
                 RMax(acc, IF axis = "x" THEN RAdd(rooms[k].x, rooms[k].width)
                                         ELSE RAdd(rooms[k].y, rooms[k].height)),
                 axis)

DEFAULT_SCALE == Rat(2, 10)

calculateFloorGeometry(fp) ==
  LET scale == Nullish(fp.scale, DEFAULT_SCALE)
      rooms == [k \in 1..Len(fp.floor.rooms) |->
                  calculateRoomGeometry(fp.floor.rooms[k], fp.defaults, scale)]
  IN  [width  |-> MaxExtent(rooms, 1, RInt(0), "x"),
       height |-> MaxExtent(rooms, 1, RInt(0), "y"),
       rooms  |-> rooms]

----------------------------------------------------------------------------
(* validation.ts: validation engine *)

\* Template-literal ids and messages are kept as tuples of their parts.

\* variant: the box is taken from the north and east walls alone
getRoomBounds_NorthEastOnly(room) ==
  [id     |-> room.id,
   name   |-> Nullish(room.name, room.id),
   x      |-> room.position.x,
   y      |-> room.position.y,
   width  |-> Nullish(room.walls.north.length, 0),
   height |-> Nullish(room.walls.east.length, 0)]

getRoomBounds(room) ==
  LET width == Max(Nullish(room.walls.north.length, 0), Nullish(room.walls.south.length, 0))
      height == Max(Nullish(room.walls.east.length, 0), Nullish(room.walls.west.length, 0))
  IN  [id     |-> room.id,
       name   |-> Nullish(room.name, room.id),
       x      |-> room.position.x,
       y      |-> room.position.y,
       width  |-> width,
       height |-> height]

OVERLAP_THRESHOLD == 1

\* variant: one dimension above the threshold is enough
rectanglesOverlap_EitherAxis(r1, r2) ==
  LET x1 == Max(r1.x, r2.x)
      y1 == Max(r1.y, r2.y)
      x2 == Min(r1.x + r1.width, r2.x + r2.width)
      y2 == Min(r1.y + r1.height, r2.y + r2.height)
  IN  IF x2 - x1 > 1 \/ y2 - y1 > 1
      THEN Some([x |-> x1, y |-> y1, width |-> x2 - x1, height |-> y2 - y1])
      ELSE None

\* None for null, Some(rectangle) otherwise
rectanglesOverlap(r1, r2) ==
  LET x1 == Max(r1.x, r2.x)
      y1 == Max(r1.y, r2.y)
      x2 == Min(r1.x + r1.width, r2.x + r2.width)
      y2 == Min(r1.y + r1.height, r2.y + r2.height)
      threshold == OVERLAP_THRESHOLD
  IN  IF x2 - x1 > threshold /\ y2 - y1 > threshold
      THEN Some([x |-> x1, y |-> y1, width |-> x2 - x1, height |-> y2 - y1])
      ELSE None

getWallSegment(room, side) ==
  LET bounds == getRoomBounds(room)
      wall == room.walls[side]
      exists == wall.exists # Some(FALSE)
      seg == CASE side = "north" -> [x1 |-> bounds.x, y1 |-> bounds.y,
                                     x2 |-> bounds.x + bounds.width, y2 |-> bounds.y]
               [] side = "south" -> [x1 |-> bounds.x, y1 |-> bounds.y + bounds.height,
                                     x2 |-> bounds.x + bounds.width,
                                     y2 |-> bounds.y + bounds.height]
               [] side = "east"  -> [x1 |-> bounds.x + bounds.width, y1 |-> bounds.y,
                                     x2 |-> bounds.x + bounds.width,
                                     y2 |-> bounds.y + bounds.height]
               [] side = "west"  -> [x1 |-> bounds.x, y1 |-> bounds.y,
                                     x2 |-> bounds.x, y2 |-> bounds.y + bounds.height]
  IN  [roomId   |-> room.id,
       roomName |-> Nullish(room.name, room.id),
       side     |-> side,
       x1 |-> seg.x1, y1 |-> seg.y1, x2 |-> seg.x2, y2 |-> seg.y2,
       exists   |-> exists]

WALL_TOLERANCE == 1

wallsOverlap(w1, w2) ==
  LET w1Horizontal == w1.y1 = w1.y2
      w2Horizontal == w2.y1 = w2.y2
      tolerance == WALL_TOLERANCE
  IN  IF w1Horizontal # w2Horizontal THEN FALSE
      ELSE IF w1Horizontal
      THEN IF Abs(w1.y1 - w2.y1) > tolerance THEN FALSE
           ELSE LET minX1 == Min(w1.x1, w1.x2)
                    maxX1 == Max(w1.x1, w1.x2)
                    minX2 == Min(w2.x1, w2.x2)
                    maxX2 == Max(w2.x1, w2.x2)
                    overlapStart == Max(minX1, minX2)
                    overlapEnd == Min(maxX1, maxX2)
                IN  overlapEnd - overlapStart > tolerance
      ELSE IF Abs(w1.x1 - w2.x1) > tolerance THEN FALSE
           ELSE LET minY1 == Min(w1.y1, w1.y2)
                    maxY1 == Max(w1.y1, w1.y2)
                    minY2 == Min(w2.y1, w2.y2)
                    maxY2 == Max(w2.y1, w2.y2)
                    overlapStart == Max(minY1, minY2)
                    overlapEnd == Min(maxY1, maxY2)
                IN  overlapEnd - overlapStart > tolerance

NoDetails == [wallSide |-> None, overlapArea |-> None, wallPosition |-> None]

\* for (i ...) for (j = i + 1 ...) over the room bounds, issues pushed in loop order
RECURSIVE OverlapLoop(_, _, _)
OverlapLoop(bounds, i, j) ==
  IF i > Len(bounds) THEN <<>>
  ELSE IF j > Len(bounds) THEN OverlapLoop(bounds, i + 1, i + 2)
  ELSE LET overlap == rectanglesOverlap(bounds[i], bounds[j])
           found == IF overlap # None
                    THEN <<[id       |-> <<"overlap", bounds[i].id, bounds[j].id>>,
                            severity |-> "error",
                            type     |-> "overlap",
                            message  |-> <<"sobrepoe", bounds[i].name, bounds[j].name>>,
                            roomIds  |-> <<bounds[i].id, bounds[j].id>>,
                            details  |-> [NoDetails EXCEPT !.overlapArea = overlap]]>>
                    ELSE <<>>
       IN  found \o OverlapLoop(bounds, i, j + 1)

detectOverlaps(rooms) ==
  OverlapLoop([k \in 1..Len(rooms) |-> getRoomBounds(rooms[k])], 1, 2)

\* for (const room of rooms) for (const side of sides) walls.push(getWallSegment(room, side))
CollectWalls(rooms) ==
  [k \in 1..(4 * Len(rooms)) |->
     getWallSegment(rooms[((k - 1) \div 4) + 1], Sides[((k - 1) % 4) + 1])]

\* variant: virtual walls are not skipped
RECURSIVE DuplicateLoop_VirtualIncluded(_, _, _)
DuplicateLoop_VirtualIncluded(walls, i, j) ==
  IF i > Len(walls) THEN <<>>
  ELSE IF j > Len(walls) THEN DuplicateLoop_VirtualIncluded(walls, i + 1, i + 2)
  ELSE LET w1 == walls[i]
           w2 == walls[j]
       IN  (IF w1.roomId # w2.roomId /\ wallsOverlap(w1, w2)
            THEN <<[id       |-> <<"duplicate-wall", w1.roomId, w1.side, w2.roomId, w2.side>>,
                    severity |-> "warning",
                    type     |-> "duplicate-wall",
                    message  |-> <<"Parede dupla", w1.roomName, w1.side,
                                   w2.roomName, w2.side>>,
                    roomIds  |-> <<w1.roomId, w2.roomId>>,
                    details  |-> [NoDetails EXCEPT
                                    !.wallSide = Some(w1.side),
                                    !.wallPosition = Some([x1 |-> w1.x1, y1 |-> w1.y1,
                                                           x2 |-> w1.x2, y2 |-> w1.y2])]]>>
            ELSE <<>>) \o DuplicateLoop_VirtualIncluded(walls, i, j + 1)

RECURSIVE DuplicateLoop(_, _, _)
DuplicateLoop(walls, i, j) ==
  IF i > Len(walls) THEN <<>>
  ELSE IF j > Len(walls) THEN DuplicateLoop(walls, i + 1, i + 2)
  ELSE LET w1 == walls[i]
           w2 == walls[j]
           found == IF w1.roomId = w2.roomId THEN <<>>
                    ELSE IF ~w1.exists \/ ~w2.exists THEN <<>>
                    ELSE IF wallsOverlap(w1, w2)
                    THEN <<[id       |-> <<"duplicate-wall", w1.roomId, w1.side,
                                           w2.roomId, w2.side>>,
                            severity |-> "warning",
                            type     |-> "duplicate-wall",
                            message  |-> <<"Parede dupla", w1.roomName, w1.side,
                                           w2.roomName, w2.side>>,
                            roomIds  |-> <<w1.roomId, w2.roomId>>,
                            details  |-> [NoDetails EXCEPT
                                            !.wallSide = Some(w1.side),
                                            !.wallPosition = Some([x1 |-> w1.x1, y1 |-> w1.y1,
                                                                   x2 |-> w1.x2, y2 |-> w1.y2])]]>>
                    ELSE <<>>
       IN  found \o DuplicateLoop(walls, i, j + 1)

detectDuplicateWalls(rooms) == DuplicateLoop(CollectWalls(rooms), 1, 2)

\* variant: only a negative width or height is invalid
RECURSIVE InvalidLoop_NegativeOnly(_, _)
InvalidLoop_NegativeOnly(rooms, k) ==
  IF k > Len(rooms) THEN <<>>
  ELSE LET bounds == getRoomBounds(rooms[k])
       IN  (IF bounds.width < 0 \/ bounds.height < 0
            THEN <<[id       |-> <<"invalid-dimension", rooms[k].id>>,
                    severity |-> "error",
                    type     |-> "invalid-dimension",
                    message  |-> <<"tem dimensoes invalidas", bounds.name>>,
                    roomIds  |-> <<rooms[k].id>>,
                    details  |-> None]>>
            ELSE <<>>) \o InvalidLoop_NegativeOnly(rooms, k + 1)

RECURSIVE InvalidLoop(_, _)
InvalidLoop(rooms, k) ==
  IF k > Len(rooms) THEN <<>>
  ELSE LET room == rooms[k]
           bounds == getRoomBounds(room)
           found == IF bounds.width <= 0 \/ bounds.height <= 0
                    THEN <<[id       |-> <<"invalid-dimension", room.id>>,
                            severity |-> "error",
                            type     |-> "invalid-dimension",
                            message  |-> <<"tem dimensoes invalidas", bounds.name>>,
                            roomIds  |-> <<room.id>>,
                            details  |-> None]>>
                    ELSE <<>>
       IN  found \o InvalidLoop(rooms, k + 1)

detectInvalidDimensions(rooms) == InvalidLoop(rooms, 1)

\* variant: overlaps are checked before invalid dimensions
validateFloorPlan_OverlapsFirst(fp) ==
  LET rooms == fp.floor.rooms
  IN  IF Len(rooms) = 0 THEN <<>>
      ELSE detectOverlaps(rooms) \o detectInvalidDimensions(rooms) \o detectDuplicateWalls(rooms)

validateFloorPlan(fp) ==
  LET rooms == fp.floor.rooms
  IN  IF Len(rooms) = 0 THEN <<>>
      ELSE detectInvalidDimensions(rooms) \o detectOverlaps(rooms) \o detectDuplicateWalls(rooms)

----------------------------------------------------------------------------
(* statistics.ts: statistics / estimation engine *)

STATS_WALL_HEIGHT == 280

STATS_WALL_THICKNESS == 15

getWallDefaults(defaults) ==
  [height    |-> Nullish(DefaultsField2(defaults, "wall", "height"), STATS_WALL_HEIGHT),
   thickness |-> Nullish(DefaultsField2(defaults, "wall", "thickness"), STATS_WALL_THICKNESS)]

STATS_DOOR == [width |-> 80, height |-> 210]

STATS_WINDOW == [width |-> 120, height |-> 120]

getOpeningDefaults(type, defaults) ==
  IF type = "door"
  THEN [width  |-> Nullish(DefaultsField2(defaults, "door", "width"), STATS_DOOR.width),
        height |-> Nullish(DefaultsField2(defaults, "door", "height"), STATS_DOOR.height)]
  ELSE [width  |-> Nullish(DefaultsField2(defaults, "window", "width"), STATS_WINDOW.width),
        height |-> Nullish(DefaultsField2(defaults, "window", "height"), STATS_WINDOW.height)]

\* the width and height the reducer of calculateOpeningsArea gives one opening
OpeningSize(opening, defaults) ==
  LET openingDefaults == getOpeningDefaults(opening.type, defaults)
  IN  [width  |-> Nullish(opening.width, openingDefaults.width),
       height |-> Nullish(opening.height, openingDefaults.height)]

\* wall.openings.reduce((total, opening) => total + width * height, 0)
RECURSIVE OpeningsAreaFrom(_, _, _)
OpeningsAreaFrom(openings, k, defaults) ==
  IF k > Len(openings) THEN 0
  ELSE LET size == OpeningSize(openings[k], defaults)
       IN  (size.width * size.height) + OpeningsAreaFrom(openings, k + 1, defaults)

\* variant: an opening without explicit width or height counts as 0
calculateOpeningsArea_ExplicitOnly(wall, defaults) ==
  IF wall.openings = None THEN 0
  ELSE LET os == wall.openings[1]
           a(k) == Nullish(os[k].width, 0) * Nullish(os[k].height, 0)
           RECURSIVE sum(_)
           sum(k) == IF k > Len(os) THEN 0 ELSE a(k) + sum(k + 1)
       IN  sum(1)

calculateOpeningsArea(wall, defaults) ==
  IF wall.openings = None \/ Len(Nullish(wall.openings, <<>>)) = 0 THEN 0
  ELSE OpeningsAreaFrom(wall.openings[1], 1, defaults)

\* variant: the quotient is rounded up to whole bricks before the waste factor is applied
calculateBrickCount_RoundFirst(areaCm2, cfg) ==
  LET brickArea == (cfg.brick.width + cfg.brick.mortarThickness)
                   * (cfg.brick.height + cfg.brick.mortarThickness)
  IN  Ceil(RMul(RInt(Ceil(Rat(areaCm2, brickArea))), cfg.brick.wasteFactor))

calculateBrickCount(areaCm2, cfg) ==
  LET brickWithMortar == [width  |-> cfg.brick.width + cfg.brick.mortarThickness,
                          height |-> cfg.brick.height + cfg.brick.mortarThickness]
      brickArea == brickWithMortar.width * brickWithMortar.height
  IN  Ceil(RMul(Rat(areaCm2, brickArea), cfg.brick.wasteFactor))

CM2_PER_M2 == 10000

CM_PER_M == 100

cm2ToM2(cm2) == Rat(cm2, CM2_PER_M2)

cmToM(cm) == Rat(cm, CM_PER_M)

\* variant: a wall counts as built only when exists is explicitly true
calculateWallStats_ExistsMustBeTrue(wall, side, defaults, cfg) ==
  LET wallDefaults == getWallDefaults(defaults)
      length == Nullish(wall.length, 0)
      height == Nullish(wall.height, wallDefaults.height)
      thickness == Nullish(wall.thickness, wallDefaults.thickness)
      exists == wall.exists = Some(TRUE)
      areaCm2 == length * height
      openingsAreaCm2 == calculateOpeningsArea(wall, defaults)
      areaWithoutOpeningsCm2 == Max(0, areaCm2 - openingsAreaCm2)
      brickCount == IF exists THEN calculateBrickCount(areaWithoutOpeningsCm2, cfg) ELSE 0
  IN  [side                |-> side,
       length              |-> length,
       height              |-> height,
       thickness           |-> thickness,
       area                |-> cm2ToM2(areaCm2),
       areaWithoutOpenings |-> cm2ToM2(areaWithoutOpeningsCm2),
       openingsArea        |-> cm2ToM2(openingsAreaCm2),
       brickCount          |-> brickCount,
       exists              |-> exists]

calculateWallStats(wall, side, defaults, cfg) ==
  LET wallDefaults == getWallDefaults(defaults)
      length == Nullish(wall.length, 0)
      height == Nullish(wall.height, wallDefaults.height)
      thickness == Nullish(wall.thickness, wallDefaults.thickness)
      exists == wall.exists # Some(FALSE)
      areaCm2 == length * height
      openingsAreaCm2 == calculateOpeningsArea(wall, defaults)
      areaWithoutOpeningsCm2 == Max(0, areaCm2 - openingsAreaCm2)
      brickCount == IF exists THEN calculateBrickCount(areaWithoutOpeningsCm2, cfg) ELSE 0
  IN  [side                |-> side,
       length              |-> length,
       height              |-> height,
       thickness           |-> thickness,
       area                |-> cm2ToM2(areaCm2),
       areaWithoutOpenings |-> cm2ToM2(areaWithoutOpeningsCm2),
       openingsArea        |-> cm2ToM2(openingsAreaCm2),
       brickCount          |-> brickCount,
       exists              |-> exists]

\* xs.reduce((sum, x) => sum + f(x), 0) over rationals; f is a field name
RECURSIVE SumRat(_, _, _)
SumRat(xs, k, f) ==
  IF k > Len(xs) THEN RInt(0) ELSE RAdd(xs[k][f], SumRat(xs, k + 1, f))

\* the same over integers
RECURSIVE SumInt(_, _, _)
SumInt(xs, k, f) ==
  IF k > Len(xs) THEN 0 ELSE xs[k][f] + SumInt(xs, k + 1, f)

\* variant: no wall is filtered out
RECURSIVE FilterExists_KeepAll(_, _)
FilterExists_KeepAll(walls, k) ==
  IF k > Len(walls) THEN <<>> ELSE <<walls[k]>> \o FilterExists_KeepAll(walls, k + 1)

\* walls.filter(w => w.exists)
RECURSIVE FilterExists(_, _)
FilterExists(walls, k) ==
  IF k > Len(walls) THEN <<>>
  ELSE (IF walls[k].exists THEN <<walls[k]>> ELSE <<>>) \o FilterExists(walls, k + 1)

\* sides.forEach(side => { if (room.walls[side].exists !== false) perimeterCm += length ?? 0 })
RECURSIVE PerimeterCm(_, _)
PerimeterCm(room, k) ==
  IF k > Len(Sides) THEN 0
  ELSE (IF room.walls[Sides[k]].exists # Some(FALSE)
        THEN Nullish(room.walls[Sides[k]].length, 0) ELSE 0) + PerimeterCm(room, k + 1)

CM3_PER_M3 == 1000000

(* Text.  A string is an atom of the model; Chars gives its characters, for the *)
(* strings the model uses, so that toLowerCase and includes work on characters. *)

Chars(s) ==
  CASE s = "" -> <<>>
    [] s = "r1" -> <<"r", "1">>
    [] s = "r2" -> <<"r", "2">>
    [] s = "r3" -> <<"r", "3">>
    [] s = "r4" -> <<"r", "4">>
    [] s = "r5" -> <<"r", "5">>
    [] s = "r6" -> <<"r", "6">>
    [] s = "Sala" -> <<"S", "a", "l", "a">>
    [] s = "sala" -> <<"s", "a", "l", "a">>
    [] s = "cozinha" -> <<"c", "o", "z", "i", "n", "h", "a">>
    [] s = "banheiro" -> <<"b", "a", "n", "h", "e", "i", "r", "o">>
    [] s = "wc" -> <<"w", "c">>
    [] s = "quarto" -> <<"q", "u", "a", "r", "t", "o">>
    [] s = "dormit" -> <<"d", "o", "r", "m", "i", "t">>
    [] s = "servico" -> <<"s", "e", "r", "v", "i", "c", "o">>
    [] s = "lavanderia" -> <<"l", "a", "v", "a", "n", "d", "e", "r", "i", "a">>
    [] s = "sala-1" -> <<"s", "a", "l", "a", "-", "1">>
    [] s = "Cozinha" -> <<"C", "o", "z", "i", "n", "h", "a">>
    [] s = "wc1" -> <<"w", "c", "1">>
    [] s = "WC" -> <<"W", "C">>
    [] s = "BANHEIRO" -> <<"B", "A", "N", "H", "E", "I", "R", "O">>
    [] s = "dormitorio" -> <<"d", "o", "r", "m", "i", "t", "o", "r", "i", "o">>
    [] s = "Dormitório" -> <<"D", "o", "r", "m", "i", "t", "ó", "r", "i", "o">>
    [] s = "Lavanderia" -> <<"L", "a", "v", "a", "n", "d", "e", "r", "i", "a">>
    [] s = "quarto-2" -> <<"q", "u", "a", "r", "t", "o", "-", "2">>
    [] s = "area-servico" -> <<"a", "r", "e", "a", "-", "s", "e", "r", "v", "i", "c", "o">>
    [] s = "Área de Serviço" -> <<"Á", "r", "e", "a", " ", "d", "e", " ", "S", "e", "r", "v", "i", "ç", "o">>
    [] s = "Quarto" -> <<"Q", "u", "a", "r", "t", "o">>
    [] s = "escritorio" -> <<"e", "s", "c", "r", "i", "t", "o", "r", "i", "o">>

\* String.prototype.toLowerCase, character by character
LowerChar(c) ==
  CASE c = "A" -> "a"
    [] c = "B" -> "b"
    [] c = "C" -> "c"
    [] c = "D" -> "d"
    [] c = "E" -> "e"
    [] c = "H" -> "h"
    [] c = "I" -> "i"
    [] c = "L" -> "l"
    [] c = "N" -> "n"
    [] c = "O" -> "o"
    [] c = "Q" -> "q"
    [] c = "R" -> "r"
    [] c = "S" -> "s"
    [] c = "W" -> "w"
    [] c = "Á" -> "á"
    [] OTHER -> c

toLowerCase(cs) == [k \in 1..Len(cs) |-> LowerChar(cs[k])]

\* String.prototype.includes
includes(cs, word) ==
  \E i \in 0..(Len(cs) - Len(word)) : SubSeq(cs, i + 1, i + Len(word)) = word

getRoomType(room) ==
  LET id == toLowerCase(Chars(room.id))
      name == toLowerCase(Chars(Nullish(room.name, "")))
  IN  IF includes(id, Chars("sala")) \/ includes(name, Chars("sala")) THEN "sala"
      ELSE IF includes(id, Chars("cozinha")) \/ includes(name, Chars("cozinha"))
      THEN "cozinha"
      ELSE IF includes(id, Chars("banheiro")) \/ includes(name, Chars("banheiro"))
              \/ includes(name, Chars("wc"))
      THEN "banheiro"
      ELSE IF includes(id, Chars("quarto")) \/ includes(name, Chars("quarto"))
              \/ includes(name, Chars("dormit"))
      THEN "quarto"
      ELSE IF includes(id, Chars("servico")) \/ includes(name, Chars("servico"))
              \/ includes(name, Chars("lavanderia"))
      THEN "area-servico"
      ELSE "default"

calculateRoomStats(room, defaults, cfg) ==
  LET wallDefaults == getWallDefaults(defaults)
      width == Max(Nullish(room.walls.north.length, 0), Nullish(room.walls.south.length, 0))
      height == Max(Nullish(room.walls.east.length, 0), Nullish(room.walls.west.length, 0))
      wallHeight == wallDefaults.height
      floorAreaCm2 == width * height
      floorArea == cm2ToM2(floorAreaCm2)
      perimeter == cmToM(PerimeterCm(room, 1))
      walls == [k \in 1..Len(Sides) |->
                  calculateWallStats(room.walls[Sides[k]], Sides[k], defaults, cfg)]
      wallsArea == SumRat(FilterExists(walls, 1), 1, "area")
      wallsAreaWithoutOpenings == SumRat(FilterExists(walls, 1), 1, "areaWithoutOpenings")
      volumeCm3 == floorAreaCm2 * wallHeight
      volume == Rat(volumeCm3, CM3_PER_M3)
      brickCount == SumInt(walls, 1, "brickCount")
  IN  [id                       |-> room.id,
       name                     |-> Nullish(room.name, room.id),
       type                     |-> getRoomType(room),
       floorArea                |-> floorArea,
       perimeter                |-> perimeter,
       wallsArea                |-> wallsArea,
       wallsAreaWithoutOpenings |-> wallsAreaWithoutOpenings,
       volume                   |-> volume,
       walls                    |-> walls,
       brickCount               |-> brickCount]

calculateMeasurements(rooms) ==
  [totalFloorArea                |-> SumRat(rooms, 1, "floorArea"),
   totalWallsArea                |-> SumRat(rooms, 1, "wallsArea"),
   totalWallsAreaWithoutOpenings |-> SumRat(rooms, 1, "wallsAreaWithoutOpenings"),
   totalVolume                   |-> SumRat(rooms, 1, "volume"),
   totalPerimeter                |-> SumRat(rooms, 1, "perimeter"),
   roomCount                     |-> Len(rooms),
   rooms                         |-> rooms]

MORTAR_PER_1000 == Rat(25, 100)

calculateMasonry(measurements) ==
  LET bricks == SumInt(measurements.rooms, 1, "brickCount")
      mortar == RMul(Rat(bricks, 1000), MORTAR_PER_1000)
  IN  [bricks |-> bricks, mortar |-> mortar]

PAINT_WALL_FACTOR == Rat(15, 10)

\* variant: the wall area is taken as it is, without the factor for walls painted on
\* both faces
calculatePaint_NoWallFactor(measurements, cfg) ==
  LET paintableWallArea == measurements.totalWallsAreaWithoutOpenings
      ceilingArea == measurements.totalFloorArea
      totalPaintArea == RMul(paintableWallArea, cfg.paint.coats)
      paint == Ceil(RDiv(totalPaintArea, cfg.paint.coverage))
      primer == Ceil(RDiv(RMul(paintableWallArea, cfg.paint.primerCoats),
                          cfg.paint.primerCoverage))
      putty == Ceil(RDiv(RMul(paintableWallArea, RDiv(cfg.paint.puttyPercentage, RInt(100))),
                         cfg.paint.puttyCoverage))
      ceilingPaint == Ceil(RDiv(RMul(ceilingArea, cfg.paint.coats), cfg.paint.coverage))
  IN  [paint |-> paint, primer |-> primer, putty |-> putty, ceilingPaint |-> ceilingPaint,
       paintableWallArea |-> paintableWallArea, ceilingArea |-> ceilingArea]

calculatePaint(measurements, cfg) ==
  LET paintableWallArea == RMul(measurements.totalWallsAreaWithoutOpenings, PAINT_WALL_FACTOR)
      ceilingArea == measurements.totalFloorArea
      totalPaintArea == RMul(paintableWallArea, cfg.paint.coats)
      paint == Ceil(RDiv(totalPaintArea, cfg.paint.coverage))
      primer == Ceil(RDiv(RMul(paintableWallArea, cfg.paint.primerCoats),
                          cfg.paint.primerCoverage))
      putty == Ceil(RDiv(RMul(paintableWallArea, RDiv(cfg.paint.puttyPercentage, RInt(100))),
                         cfg.paint.puttyCoverage))
      ceilingPaint == Ceil(RDiv(RMul(ceilingArea, cfg.paint.coats), cfg.paint.coverage))
  IN  [paint |-> paint, primer |-> primer, putty |-> putty, ceilingPaint |-> ceilingPaint,
       paintableWallArea |-> paintableWallArea, ceilingArea |-> ceilingArea]

\* variant: tiles are rounded up to whole square meters like grout and adhesive
calculateFlooring_TilesRounded(measurements, cfg) ==
  LET netArea == measurements.totalFloorArea
      tiles == RInt(Ceil(RMul(netArea, cfg.flooring.wasteFactor)))
      grout == Ceil(RMul(netArea, cfg.flooring.groutPerM2))
      adhesive == Ceil(RMul(netArea, cfg.flooring.adhesivePerM2))
  IN  [tiles |-> tiles, grout |-> grout, adhesive |-> adhesive, netArea |-> netArea]

calculateFlooring(measurements, cfg) ==
  LET netArea == measurements.totalFloorArea
      tiles == RMul(netArea, cfg.flooring.wasteFactor)
      grout == Ceil(RMul(netArea, cfg.flooring.groutPerM2))
      adhesive == Ceil(RMul(netArea, cfg.flooring.adhesivePerM2))
  IN  [tiles |-> tiles, grout |-> grout, adhesive |-> adhesive, netArea |-> netArea]

\* rooms.map(...) of calculateElectrical: the room's row of the type table, or the
\* default row
ElectricalByRoom(rooms, cfg) ==
  [k \in 1..Len(rooms) |->
     LET roomType == rooms[k].type
         table == cfg.electrical.byRoomType
         estimate == IF roomType \in DOMAIN table THEN table[roomType] ELSE table["default"]
     IN  [roomName |-> rooms[k].name, outlets |-> estimate.outlets,
          switches |-> estimate.switches, lights |-> estimate.lights]]

\* variant: wire is estimated for the outlets alone
calculateElectrical_WireForOutlets(rooms, cfg) ==
  LET byRoom == ElectricalByRoom(rooms, cfg)
      outlets == SumInt(byRoom, 1, "outlets")
      switches == SumInt(byRoom, 1, "switches")
      lightPoints == SumInt(byRoom, 1, "lights")
      wireEstimate == RMul(RInt(outlets), cfg.electrical.wirePerPoint)
  IN  [outlets |-> outlets, switches |-> switches, lightPoints |-> lightPoints,
       wireEstimate |-> wireEstimate, byRoom |-> byRoom]

calculateElectrical(rooms, cfg) ==
  LET byRoom == ElectricalByRoom(rooms, cfg)
      outlets == SumInt(byRoom, 1, "outlets")
      switches == SumInt(byRoom, 1, "switches")
      lightPoints == SumInt(byRoom, 1, "lights")
      wireEstimate == RMul(RInt(outlets + switches + lightPoints), cfg.electrical.wirePerPoint)
  IN  [outlets |-> outlets, switches |-> switches, lightPoints |-> lightPoints,
       wireEstimate |-> wireEstimate, byRoom |-> byRoom]

\* rooms.map(...).filter(r => r !== null) of calculatePlumbing: rooms whose type has no
\* row are left out
RECURSIVE PlumbingByRoom(_, _, _)
PlumbingByRoom(rooms, k, cfg) ==
  IF k > Len(rooms) THEN <<>>
  ELSE LET roomType == rooms[k].type
           table == cfg.plumbing.byRoomType
       IN  (IF roomType \in DOMAIN table
            THEN <<[roomName |-> rooms[k].name, coldWater |-> table[roomType].coldWater,
                    hotWater |-> table[roomType].hotWater, drains |-> table[roomType].drains]>>
            ELSE <<>>) \o PlumbingByRoom(rooms, k + 1, cfg)

calculatePlumbing(rooms, cfg) ==
  LET byRoom == PlumbingByRoom(rooms, 1, cfg)
      coldWaterPoints == SumInt(byRoom, 1, "coldWater")
      hotWaterPoints == SumInt(byRoom, 1, "hotWater")
      drainPoints == SumInt(byRoom, 1, "drains")
      pipeEstimate == RMul(RInt(coldWaterPoints + hotWaterPoints + drainPoints),
                           cfg.plumbing.pipePerPoint)
  IN  [coldWaterPoints |-> coldWaterPoints, hotWaterPoints |-> hotWaterPoints,
       drainPoints |-> drainPoints, pipeEstimate |-> pipeEstimate, byRoom |-> byRoom]

\* Math.round of a rational
Round(a) == (2 * a.n + a.d) \div (2 * a.d)

\* one line of the budget; quantities and money are rationals
BudgetItem(category, item, quantity, unit, unitPrice, total) ==
  [category |-> category, item |-> item, quantity |-> quantity, unit |-> unit,
   unitPrice |-> unitPrice, total |-> total]

\* items.filter(i => i.category === category).reduce((sum, i) => sum + i.total, 0)
RECURSIVE CategoryTotal(_, _, _)
CategoryTotal(items, k, category) ==
  IF k > Len(items) THEN RInt(0)
  ELSE RAdd(IF items[k].category = category THEN items[k].total ELSE RInt(0),
            CategoryTotal(items, k + 1, category))

PAINT_CAN_LITERS == 18

PUTTY_SACK_KG == 25

\* variant: liters are priced as fractions of a can
BudgetCans_Fractional(liters, canSize) == Rat(liters, canSize)

\* Math.ceil(liters / 18), Math.ceil(kg / 25)
BudgetCans(liters, canSize) == RInt(Ceil(Rat(liters, canSize)))

\* Math.ceil(x * 10) / 10
CeilToTenth(x) == Rat(Ceil(RMul(x, RInt(10))), 10)

MasonryItems(materials, prices) ==
  <<BudgetItem("Alvenaria", <<"Tijolos cerâmicos 6 furos">>, RInt(materials.masonry.bricks),
               "un", prices.brick, RMul(RInt(materials.masonry.bricks), prices.brick)),
    BudgetItem("Alvenaria", <<"Argamassa de assentamento">>,
               CeilToTenth(materials.masonry.mortar), "m³", prices.mortar_m3,
               RMul(materials.masonry.mortar, prices.mortar_m3))>>

PaintItems(materials, prices) ==
  LET paintCans == BudgetCans(materials.paint.paint, PAINT_CAN_LITERS)
      primerCans == BudgetCans(materials.paint.primer, PAINT_CAN_LITERS)
      puttySacks == BudgetCans(materials.paint.putty, PUTTY_SACK_KG)
      ceilingCans == BudgetCans(materials.paint.ceilingPaint, PAINT_CAN_LITERS)
  IN  <<BudgetItem("Pintura", <<"Tinta látex (paredes) 18L">>, paintCans, "lata",
                   prices.paint_18l, RMul(paintCans, prices.paint_18l)),
        BudgetItem("Pintura", <<"Selador/Fundo 18L">>, primerCans, "lata",
                   prices.primer_18l, RMul(primerCans, prices.primer_18l)),
        BudgetItem("Pintura", <<"Massa corrida 25kg">>, puttySacks, "saco",
                   prices.putty_25kg, RMul(puttySacks, prices.putty_25kg)),
        BudgetItem("Pintura", <<"Tinta látex (teto) 18L">>, ceilingCans, "lata",
                   prices.paint_18l, RMul(ceilingCans, prices.paint_18l))>>

FlooringItems(materials, prices, cfg) ==
  <<BudgetItem("Piso",
               <<"Piso cerâmico (c/ ",
                 Round(RMul(RSub(cfg.flooring.wasteFactor, RInt(1)), RInt(100))), "% perda)">>,
               CeilToTenth(materials.flooring.tiles), "m²", prices.tile_m2,
               RMul(materials.flooring.tiles, prices.tile_m2)),
    BudgetItem("Piso", <<"Rejunte">>, RInt(materials.flooring.grout), "kg", prices.grout_kg,
               RMul(RInt(materials.flooring.grout), prices.grout_kg)),
    BudgetItem("Piso", <<"Argamassa colante">>, RInt(materials.flooring.adhesive), "kg",
               prices.tile_adhesive_kg,
               RMul(RInt(materials.flooring.adhesive), prices.tile_adhesive_kg))>>

ElectricalItems(materials, prices) ==
  <<BudgetItem("Elétrica", <<"Tomadas">>, RInt(materials.electrical.outlets), "un",
               prices.outlet, RMul(RInt(materials.electrical.outlets), prices.outlet)),
    BudgetItem("Elétrica", <<"Interruptores">>, RInt(materials.electrical.switches), "un",
               prices.switch, RMul(RInt(materials.electrical.switches), prices.switch)),
    BudgetItem("Elétrica", <<"Pontos de luz">>, RInt(materials.electrical.lightPoints), "un",
               prices.light_point,
               RMul(RInt(materials.electrical.lightPoints), prices.light_point)),
    BudgetItem("Elétrica", <<"Fiação 2.5mm">>, materials.electrical.wireEstimate, "m",
               prices.wire_m, RMul(materials.electrical.wireEstimate, prices.wire_m))>>

\* the three plumbing lines are pushed only when their quantity is positive
PlumbingItems(materials, prices) ==
  LET totalWaterPoints == materials.plumbing.coldWaterPoints
                          + materials.plumbing.hotWaterPoints
  IN  (IF totalWaterPoints > 0
       THEN <<BudgetItem("Hidráulica", <<"Pontos de água">>, RInt(totalWaterPoints), "un",
                         prices.water_point, RMul(RInt(totalWaterPoints), prices.water_point))>>
       ELSE <<>>)
      \o (IF materials.plumbing.drainPoints > 0
          THEN <<BudgetItem("Hidráulica", <<"Pontos de esgoto">>,
                            RInt(materials.plumbing.drainPoints), "un", prices.drain_point,
                            RMul(RInt(materials.plumbing.drainPoints), prices.drain_point))>>
          ELSE <<>>)
      \o (IF RLess(RInt(0), materials.plumbing.pipeEstimate)
          THEN <<BudgetItem("Hidráulica", <<"Tubulação PVC">>,
                            materials.plumbing.pipeEstimate, "m", prices.pipe_m,
                            RMul(materials.plumbing.pipeEstimate, prices.pipe_m))>>
          ELSE <<>>)

\* variant: the guard tests the area against 0 only (totalArea !== 0)
PerM2_NonZero(total, totalArea) ==
  IF totalArea.n # 0 THEN RDiv(total, totalArea) ELSE RInt(0)

\* totalArea > 0 ? total / totalArea : 0
PerM2(total, totalArea) ==
  IF RLess(RInt(0), totalArea) THEN RDiv(total, totalArea) ELSE RInt(0)

calculateBudget(materials, totalArea, cfg) ==
  LET prices == cfg.prices
      items == MasonryItems(materials, prices) \o PaintItems(materials, prices)
               \o FlooringItems(materials, prices, cfg) \o ElectricalItems(materials, prices)
               \o PlumbingItems(materials, prices)
      subtotals == [masonry    |-> CategoryTotal(items, 1, "Alvenaria"),
                    paint      |-> CategoryTotal(items, 1, "Pintura"),
                    flooring   |-> CategoryTotal(items, 1, "Piso"),
                    electrical |-> CategoryTotal(items, 1, "Elétrica"),
                    plumbing   |-> CategoryTotal(items, 1, "Hidráulica")]
      total == RAdd(RAdd(RAdd(RAdd(RAdd(RInt(0), subtotals.masonry), subtotals.paint),
                              subtotals.flooring), subtotals.electrical), subtotals.plumbing)
      perM2 == PerM2(total, totalArea)
  IN  [items |-> items, subtotals |-> subtotals, total |-> total, perM2 |-> perM2]

\* a const declaration: the body F sees the value of v, computed once
Const(v, F(_)) == CHOOSE r \in {F(x) : x \in {v}} : TRUE

calculateFloorPlanStats(fp, cfg) ==
  Const([k \in 1..Len(fp.floor.rooms) |->
           calculateRoomStats(fp.floor.rooms[k], fp.defaults, cfg)],
        LAMBDA rooms :
  Const(calculateMeasurements(rooms),
        LAMBDA measurements :
  Const([masonry    |-> calculateMasonry(measurements),
         paint      |-> calculatePaint(measurements, cfg),
         flooring   |-> calculateFlooring(measurements, cfg),
         electrical |-> calculateElectrical(rooms, cfg),
         plumbing   |-> calculatePlumbing(rooms, cfg)],
        LAMBDA materials :
  [measurements |-> measurements, materials |-> materials,
   budget |-> calculateBudget(materials, measurements.totalFloorArea, cfg)])))

DEFAULT_ESTIMATE_CONFIG ==
  [brick    |-> [width |-> 14, height |-> 19, length |-> 9, mortarThickness |-> 1,
                 wasteFactor |-> Rat(105, 100)],
   paint    |-> [coverage |-> RInt(10), primerCoverage |-> RInt(12), puttyCoverage |-> RInt(3),
                 coats |-> RInt(2), primerCoats |-> RInt(1), puttyPercentage |-> RInt(70)],
   flooring |-> [wasteFactor |-> Rat(110, 100), groutPerM2 |-> Rat(5, 10),
                 adhesivePerM2 |-> RInt(5)],
   electrical |->
     [wirePerPoint |-> RInt(8),
      byRoomType |->
        [t \in {"sala", "cozinha", "banheiro", "quarto", "area-servico", "default"} |->
           CASE t = "sala"         -> [outlets |-> 6, switches |-> 2, lights |-> 2]
             [] t = "cozinha"      -> [outlets |-> 8, switches |-> 2, lights |-> 2]
             [] t = "banheiro"     -> [outlets |-> 2, switches |-> 1, lights |-> 2]
             [] t = "quarto"       -> [outlets |-> 4, switches |-> 2, lights |-> 1]
             [] t = "area-servico" -> [outlets |-> 3, switches |-> 1, lights |-> 1]
             [] t = "default"      -> [outlets |-> 3, switches |-> 1, lights |-> 1]]],
   plumbing |->
     [pipePerPoint |-> RInt(3),
      byRoomType |->
        [t \in {"cozinha", "banheiro", "area-servico"} |->
           CASE t = "cozinha"      -> [coldWater |-> 2, hotWater |-> 1, drains |-> 2]
             [] t = "banheiro"     -> [coldWater |-> 3, hotWater |-> 2, drains |-> 3]
             [] t = "area-servico" -> [coldWater |-> 2, hotWater |-> 1, drains |-> 2]]],
   prices |->
     [brick |-> Rat(85, 100), mortar_m3 |-> RInt(350), paint_18l |-> RInt(280),
      primer_18l |-> RInt(150), putty_25kg |-> RInt(45), tile_m2 |-> RInt(45),
      grout_kg |-> RInt(8), tile_adhesive_kg |-> Rat(12, 10), outlet |-> RInt(25),
      switch |-> RInt(20), light_point |-> RInt(80), water_point |-> RInt(120),
      drain_point |-> RInt(100), wire_m |-> Rat(35, 10), pipe_m |-> RInt(12)]]

----------------------------------------------------------------------------
(* Bounded input families.  A FloorPlan is immutable input to every pass, *)
(* so each specification draws it in Init and its actions run the passes. *)

MaxRooms == 3

MaxStatsRooms == 2

MaxGeomRooms == 2

MaxOpenings == 2

RoomIds == <<"r1", "r2", "r3", "r4", "r5", "r6">>

\* All sequences over S of length at most n
RECURSIVE SeqsUpTo(_, _)
SeqsUpTo(S, n) ==
  IF n = 0 THEN {<<>>}
  ELSE LET shorter == SeqsUpTo(S, n - 1)
       IN  shorter \cup {Append(q, e) : q \in {r \in shorter : Len(r) = n - 1}, e \in S}

MkWall(length, height, exists, openings) ==
  [length |-> length, height |-> height, thickness |-> None,
   exists |-> exists, openings |-> openings]

PlainWall(length) == MkWall(length, None, None, None)

MkOpening(type, offset, width, height) ==
  [type |-> type, offset |-> offset, width |-> width, height |-> height,
   fromFloor |-> None, to |-> None]

\* a door and a window inside a 400 wall (beyond the end of a shorter one) and a
\* tall door that starts before the wall
OpeningSet ==
  {MkOpening("door", 50, Some(80), None),
   MkOpening("window", 200, Some(120), None),
   MkOpening("door", -30, None, Some(250))}

OpeningLists == {None} \cup {Some(q) : q \in SeqsUpTo(OpeningSet, MaxOpenings)}

DefaultsSet ==
  {None,
   Some([wall   |-> Some([height |-> Some(300), thickness |-> None]),
         door   |-> Some([width |-> None, height |-> Some(200)]),
         window |-> None])}

MkPlan(scale, defaults, rooms) ==
  [version |-> "1.0", unit |-> "cm", scale |-> scale, defaults |-> defaults,
   floor |-> [id |-> "floor", rooms |-> rooms]]

\* rooms of a list get the ids r1, r2, ... in list order (ids are unique keys)
WithIds(protos) == [k \in 1..Len(protos) |-> [protos[k] EXCEPT !.id = RoomIds[k]]]

MkRoom(name, x, y, north, east, south, west) ==
  [id |-> "r0", name |-> name, position |-> [x |-> x, y |-> y],
   walls |-> [north |-> north, east |-> east, south |-> south, west |-> west]]

(* Validation family: small rooms around the 1-unit tolerances. *)

ValidationPositions == {<<0, 0>>, <<1, 0>>, <<3, 0>>}

\* <<north, east, south, west>>
ValidationShapes ==
  {\* 3 x 3, every wall built
   <<PlainWall(Some(3)), PlainWall(Some(3)), PlainWall(Some(3)), PlainWall(Some(3))>>,
   \* north 0 but south 3: 3 x 3, east wall virtual, west length absent
   <<PlainWall(Some(0)), MkWall(Some(3), None, Some(FALSE), None),
     PlainWall(Some(3)), MkWall(None, None, Some(TRUE), None)>>,
   \* 1 x 3
   <<PlainWall(Some(1)), PlainWall(Some(3)), PlainWall(None), PlainWall(Some(3))>>,
   \* width max(-1, 0) = 0
   <<PlainWall(Some(-1)), PlainWall(Some(3)), PlainWall(Some(0)), PlainWall(Some(3))>>,
   \* height max(-1, -2) = -1
   <<PlainWall(Some(3)), PlainWall(Some(-1)), PlainWall(Some(3)), PlainWall(Some(-2))>>}

ValidationRooms ==
  {MkRoom(None, p[1], p[2], w[1], w[2], w[3], w[4]) :
     p \in ValidationPositions, w \in ValidationShapes}

ValidationPlans ==
  {MkPlan(None, None, WithIds(q)) : q \in SeqsUpTo(ValidationRooms, MaxRooms)}

(* Geometry family: rooms of ordinary size, also left of and above the    *)
(* origin; the first room carries the openings, the same list on each wall *)

GeometryPositions == {<<0, 0>>, <<-700, -500>>, <<100, 50>>}

GeometryShapes ==
  {<<PlainWall(Some(400)), PlainWall(Some(300)), PlainWall(Some(400)), PlainWall(Some(300))>>,
   <<PlainWall(Some(350)), PlainWall(None), PlainWall(Some(400)),
     MkWall(Some(250), None, Some(FALSE), None)>>}

GeometryPlainRooms ==
  {MkRoom(None, p[1], p[2], w[1], w[2], w[3], w[4]) :
     p \in GeometryPositions, w \in GeometryShapes}

GeometryFirstRooms ==
  {[r EXCEPT !.name = Some("Sala"),
             !.walls.north.openings = o, !.walls.east.openings = o,
             !.walls.south.openings = o, !.walls.west.openings = o] :
     r \in GeometryPlainRooms, o \in OpeningLists}

GeometryRoomLists ==
  {<<>>} \cup SeqsUpTo(GeometryPlainRooms, MaxGeomRooms)
         \cup {<<f>> \o q : f \in GeometryFirstRooms,
                            q \in SeqsUpTo(GeometryPlainRooms, MaxGeomRooms - 1)}

ScaleSet == {None, Some(RInt(1)), Some(Rat(1, 2))}

GeometryPlans ==
  {MkPlan(sc, d, WithIds(q)) : sc \in ScaleSet, d \in DefaultsSet, q \in GeometryRoomLists}

(* Statistics family: the first room's north wall varies in every field,  *)
(* the other rooms are plain.                                              *)

StatsNorthWalls ==
  {MkWall(l, a[1], a[2], o) :
     l \in {None, Some(-100), Some(0), Some(100), Some(400)},
     a \in {<<None, None>>, <<Some(250), Some(TRUE)>>, <<None, Some(FALSE)>>},
     o \in OpeningLists}

StatsFirstRooms ==
  {MkRoom(Some("Sala"), 0, 0, n, PlainWall(Some(300)), so, PlainWall(Some(300))) :
     n \in StatsNorthWalls,
     so \in {PlainWall(None), PlainWall(Some(0)), PlainWall(Some(400))}}

StatsPlainRooms ==
  {MkRoom(None, 400, 0, PlainWall(Some(400)), PlainWall(Some(300)),
          PlainWall(Some(400)), PlainWall(Some(300))),
   MkRoom(None, 400, 0, PlainWall(Some(200)), MkWall(Some(300), None, Some(FALSE), None),
          PlainWall(Some(200)),
          MkWall(Some(300), Some(250), None, Some(<<MkOpening("door", 50, None, None)>>))),
   MkRoom(None, 400, 0, PlainWall(Some(-50)), PlainWall(Some(-20)),
          PlainWall(Some(-50)), PlainWall(Some(-20)))}

StatsRoomLists ==
  {<<>>} \cup {<<f>> \o q : f \in StatsFirstRooms,
                            q \in SeqsUpTo(StatsPlainRooms, MaxStatsRooms - 1)}

ConfigSet ==
  {DEFAULT_ESTIMATE_CONFIG,
   [DEFAULT_ESTIMATE_CONFIG EXCEPT !.brick.width = 9, !.brick.wasteFactor = Rat(110, 100)]}

StatsPlans == {MkPlan(None, d, WithIds(q)) : d \in DefaultsSet, q \in StatsRoomLists}

----------------------------------------------------------------------------
(* The three passes as operations on the current plan *)

InitValidation ==
  /\ floorPlan \in ValidationPlans
  /\ config = DEFAULT_ESTIMATE_CONFIG
  /\ geometry = None
  /\ issues = None
  /\ stats = None
  /\ resolvedWalls = None
  /\ history = None
  /\ flooring64 = None
  /\ editorState = None
  /\ dispatched = None
  /\ dispatchCount = None
  /\ cleanPlan = None
  /\ storage = None
  /\ clock = None
  /\ projectsCreated = None
  /\ lastCall = None
  /\ callCount = None

InitGeometry ==
  /\ floorPlan \in GeometryPlans
  /\ config = DEFAULT_ESTIMATE_CONFIG
  /\ geometry = None
  /\ issues = None
  /\ stats = None
  /\ resolvedWalls = None
  /\ history = None
  /\ flooring64 = None
  /\ editorState = None
  /\ dispatched = None
  /\ dispatchCount = None
  /\ cleanPlan = None
  /\ storage = None
  /\ clock = None
  /\ projectsCreated = None
  /\ lastCall = None
  /\ callCount = None

InitStats ==
  /\ floorPlan \in StatsPlans
  /\ config \in ConfigSet
  /\ geometry = None
  /\ issues = None
  /\ stats = None
  /\ resolvedWalls = None
  /\ history = None
  /\ flooring64 = None
  /\ editorState = None
  /\ dispatched = None
  /\ dispatchCount = None
  /\ cleanPlan = None
  /\ storage = None
  /\ clock = None
  /\ projectsCreated = None
  /\ lastCall = None
  /\ callCount = None

ValidateFloorPlan ==
  /\ issues = None
  /\ issues' = Some(validateFloorPlan(floorPlan))
  /\ UNCHANGED <<floorPlan, config, geometry, stats, resolvedWalls, history, flooring64, editorState, dispatched, dispatchCount, cleanPlan, storage, clock, projectsCreated, lastCall, callCount>>

CalculateFloorGeometry ==
  /\ geometry = None
  /\ geometry' = Some(calculateFloorGeometry(floorPlan))
  /\ UNCHANGED <<floorPlan, config, issues, stats, resolvedWalls, history, flooring64, editorState, dispatched, dispatchCount, cleanPlan, storage, clock, projectsCreated, lastCall, callCount>>

\* variant: the room list is reversed in place before the rooms are measured
CalculateFloorPlanStats_ReversesRooms ==
  /\ stats = None
  /\ floorPlan' = [floorPlan EXCEPT
                     !.floor.rooms = [k \in 1..Len(@) |-> @[Len(@) + 1 - k]]]
  /\ stats' = Some(calculateFloorPlanStats(floorPlan', config))
  /\ UNCHANGED <<config, geometry, issues, resolvedWalls, history, flooring64, editorState, dispatched, dispatchCount, cleanPlan, storage, clock, projectsCreated, lastCall, callCount>>

CalculateFloorPlanStats ==
  /\ stats = None
  /\ stats' = Some(calculateFloorPlanStats(floorPlan, config))
  /\ UNCHANGED <<floorPlan, config, geometry, issues, resolvedWalls, history, flooring64, editorState, dispatched, dispatchCount, cleanPlan, storage, clock, projectsCreated, lastCall, callCount>>

NextValidation == ValidateFloorPlan

NextGeometry == CalculateFloorGeometry

\* the statistics family is also validated (both passes read the same plan)
NextStats == CalculateFloorPlanStats \/ ValidateFloorPlan

SpecValidation == InitValidation /\ [][NextValidation]_vars

SpecGeometry == InitGeometry /\ [][NextGeometry]_vars

SpecStats == InitStats /\ [][NextStats]_vars

----------------------------------------------------------------------------
(* Properties of the statistics engine *)

StatsDone == stats # None

IssuesDone == issues # None

InputRooms == floorPlan.floor.rooms

RoomIndices == 1..Len(InputRooms)

SideIndices == 1..Len(Sides)

InputWall(k, i) == InputRooms[k].walls[Sides[i]]

StatsWall(k, i) == stats[1].measurements.rooms[k].walls[i]

\* (brick.width + mortar) x (brick.height + mortar)
BrickUnitArea == (config.brick.width + config.brick.mortarThickness)
                 * (config.brick.height + config.brick.mortarThickness)

\* a wall's reported net area in m2, back in cm2
NetAreaCm2(w) == RMul(w.areaWithoutOpenings, RInt(CM2_PER_M2))

RoomBrickSum(k) ==
  StatsWall(k, 1).brickCount + StatsWall(k, 2).brickCount
  + StatsWall(k, 3).brickCount + StatsWall(k, 4).brickCount

ThreeTier(explicit, planDefault, constant) ==
  IF explicit # None THEN explicit[1]
  ELSE IF planDefault # None THEN planDefault[1]
  ELSE constant

PlanDefault(f, g) ==
  IF floorPlan.defaults = None THEN None
  ELSE IF floorPlan.defaults[1][f] = None THEN None
  ELSE floorPlan.defaults[1][f][1][g]

ExpectedWallHeight(wall) == ThreeTier(wall.height, PlanDefault("wall", "height"), 280)

ExpectedOpeningWidth(o) ==
  ThreeTier(o.width, PlanDefault(o.type, "width"), IF o.type = "door" THEN 80 ELSE 120)

ExpectedOpeningHeight(o) ==
  ThreeTier(o.height, PlanDefault(o.type, "height"), IF o.type = "door" THEN 210 ELSE 120)

InputOpenings(wall) == IF wall.openings = None THEN <<>> ELSE wall.openings[1]

RECURSIVE ExpectedOpeningsSum(_, _)
ExpectedOpeningsSum(os, k) ==
  IF k > Len(os) THEN 0
  ELSE ExpectedOpeningWidth(os[k]) * ExpectedOpeningHeight(os[k])
       + ExpectedOpeningsSum(os, k + 1)

ExpectedGrossCm2(wall) ==
  (IF wall.length = None THEN 0 ELSE wall.length[1]) * ExpectedWallHeight(wall)

ExpectedOpeningsCm2(wall) == ExpectedOpeningsSum(InputOpenings(wall), 1)

\* C2 as stated: every wall's net area is gross area minus the sum of its openings'
\* resolved width x height, also when the openings exceed the gross area.
C2_NetAreaIsDifference ==
  StatsDone =>
    \A k \in RoomIndices, i \in SideIndices :
      StatsWall(k, i).areaWithoutOpenings =
        Rat(ExpectedGrossCm2(InputWall(k, i)) - ExpectedOpeningsCm2(InputWall(k, i)),
            CM2_PER_M2)

\* C2 amended: every wall's net area is gross area minus the sum of its openings'
\* resolved width x height, but never below 0: when the openings exceed the gross
\* area the net area is 0.
C2_NetAreaIsClampedDifference ==
  StatsDone =>
    \A k \in RoomIndices, i \in SideIndices :
      LET diff == ExpectedGrossCm2(InputWall(k, i)) - ExpectedOpeningsCm2(InputWall(k, i))
      IN  StatsWall(k, i).areaWithoutOpenings = Rat(IF diff < 0 THEN 0 ELSE diff, CM2_PER_M2)

\* one wall whose openings (resolved from plan defaults) leave a positive net area and
\* one 100-long wall whose two openings exceed its gross area
C2_Witness ==
  /\ StatsDone
  /\ \E k \in RoomIndices, i \in SideIndices :
       /\ Len(InputOpenings(InputWall(k, i))) = 2
       /\ ExpectedGrossCm2(InputWall(k, i)) > 0
       /\ ExpectedOpeningsCm2(InputWall(k, i)) > ExpectedGrossCm2(InputWall(k, i))
       /\ StatsWall(k, i).areaWithoutOpenings = RInt(0)
  /\ \E k \in RoomIndices, i \in SideIndices :
       /\ Len(InputOpenings(InputWall(k, i))) = 1
       /\ InputOpenings(InputWall(k, i))[1].width = None
       /\ floorPlan.defaults # None
       /\ RLess(RInt(0), StatsWall(k, i).areaWithoutOpenings)
       /\ RLess(StatsWall(k, i).areaWithoutOpenings, StatsWall(k, i).area)

----------------------------------------------------------------------------
(* Degenerate rooms in validation and statistics *)

IssueList == issues[1]

IssueIndices == 1..Len(IssueList)

LengthOrZero(wall) == IF wall.length = None THEN 0 ELSE wall.length[1]

EffectiveWidth(room) ==
  IF LengthOrZero(room.walls.north) >= LengthOrZero(room.walls.south)
  THEN LengthOrZero(room.walls.north) ELSE LengthOrZero(room.walls.south)

EffectiveHeight(room) ==
  IF LengthOrZero(room.walls.east) >= LengthOrZero(room.walls.west)
  THEN LengthOrZero(room.walls.east) ELSE LengthOrZero(room.walls.west)

InvalidIssuesOf(roomId) ==
  {p \in IssueIndices : /\ IssueList[p].type = "invalid-dimension"
                        /\ IssueList[p].roomIds = <<roomId>>}

StatsRoom(k) == stats[1].measurements.rooms[k]

Positive(r) == RLess(RInt(0), r)

\* C5 as stated: a room whose north length is 0 or negative gets an invalid-dimension
\* error and has no positive floor area, wall area or brick count, whatever its other
\* three walls are.
C5_NorthNonPositiveIsExcluded ==
  (StatsDone /\ IssuesDone) =>
    \A k \in RoomIndices :
      LengthOrZero(InputRooms[k].walls.north) <= 0 =>
        /\ InvalidIssuesOf(InputRooms[k].id) # {}
        /\ ~Positive(StatsRoom(k).floorArea)
        /\ ~Positive(StatsRoom(k).wallsArea)
        /\ ~Positive(StatsRoom(k).wallsAreaWithoutOpenings)
        /\ StatsRoom(k).brickCount <= 0

\* C5 amended: a room whose north AND south lengths are both 0, negative or absent
\* (effective width <= 0) gets an invalid-dimension error naming it; its north and south
\* walls contribute no net wall area and no bricks, and its floor area is not positive
\* unless its effective height is negative as well.
C5_NonPositiveWidthIsFlagged ==
  (StatsDone /\ IssuesDone) =>
    \A k \in RoomIndices :
      EffectiveWidth(InputRooms[k]) <= 0 =>
        /\ InvalidIssuesOf(InputRooms[k].id) # {}
        /\ \A p \in InvalidIssuesOf(InputRooms[k].id) : IssueList[p].severity = "error"
        /\ \A i \in {1, 3} :
             /\ StatsWall(k, i).areaWithoutOpenings = RInt(0)
             /\ StatsWall(k, i).brickCount = 0
        /\ EffectiveHeight(InputRooms[k]) >= 0 => ~Positive(StatsRoom(k).floorArea)

\* a room of width exactly 0 (north 0, south absent or 0) that is flagged while its east
\* and west walls still bring wall area and bricks
C5_Witness ==
  /\ StatsDone
  /\ IssuesDone
  /\ \E k \in RoomIndices :
       /\ InputRooms[k].walls.north.length = Some(0)
       /\ EffectiveWidth(InputRooms[k]) = 0
       /\ InvalidIssuesOf(InputRooms[k].id) # {}
       /\ StatsRoom(k).floorArea = RInt(0)
       /\ Positive(StatsRoom(k).wallsArea)
       /\ StatsRoom(k).brickCount > 0

----------------------------------------------------------------------------
(* Properties of the validation engine *)

RoomBox(room) ==
  [x |-> room.position.x, y |-> room.position.y,
   w |-> EffectiveWidth(room), h |-> EffectiveHeight(room)]

Smaller(a, b) == IF a <= b THEN a ELSE b

Larger(a, b) == IF a >= b THEN a ELSE b

\* the intersection rectangle of two boxes (width or height <= 0 when they are apart)
Intersection(a, b) ==
  [x      |-> Larger(a.x, b.x),
   y      |-> Larger(a.y, b.y),
   width  |-> Smaller(a.x + a.w, b.x + b.w) - Larger(a.x, b.x),
   height |-> Smaller(a.y + a.h, b.y + b.h) - Larger(a.y, b.y)]

OverlapIssuesOf(idA, idB) ==
  {p \in IssueIndices : /\ IssueList[p].type = "overlap"
                        /\ IssueList[p].roomIds = <<idA, idB>>}

\* C3: an overlap error is reported for the pair of rooms i < j iff their boxes intersect
\* more than 1 unit wide and more than 1 unit high; exactly one issue per such pair, with
\* severity error, both room ids and the exact intersection rectangle.
C3_OverlapIffIntersectionAboveTolerance ==
  IssuesDone =>
    /\ \A i \in RoomIndices, j \in RoomIndices :
         i < j =>
           LET box == Intersection(RoomBox(InputRooms[i]), RoomBox(InputRooms[j]))
               found == OverlapIssuesOf(InputRooms[i].id, InputRooms[j].id)
           IN  /\ Cardinality(found) = IF box.width > 1 /\ box.height > 1 THEN 1 ELSE 0
               /\ OverlapIssuesOf(InputRooms[j].id, InputRooms[i].id) = {}
               /\ \A p \in found :
                    /\ IssueList[p].severity = "error"
                    /\ IssueList[p].details.overlapArea = Some(box)
    /\ \A p \in IssueIndices :
         IssueList[p].type = "overlap" =>
           \E i \in RoomIndices, j \in RoomIndices :
             i < j /\ IssueList[p].roomIds = <<InputRooms[i].id, InputRooms[j].id>>

\* two 3 x 3 rooms at (0,0) and (1,0): one error with rectangle {x:1, y:0, 2 x 3}; and a
\* pair that intersects only 1 unit wide without an error
C3_Witness ==
  /\ IssuesDone
  /\ \E p \in IssueIndices :
       /\ IssueList[p].type = "overlap"
       /\ IssueList[p].details.overlapArea =
            Some([x |-> 1, y |-> 0, width |-> 2, height |-> 3])
  /\ \E i \in RoomIndices, j \in RoomIndices :
       /\ i < j
       /\ Intersection(RoomBox(InputRooms[i]), RoomBox(InputRooms[j])).width = 1
       /\ Intersection(RoomBox(InputRooms[i]), RoomBox(InputRooms[j])).height = 3
       /\ OverlapIssuesOf(InputRooms[i].id, InputRooms[j].id) = {}

\* C6: exactly one invalid-dimension issue (severity error, roomIds = [the room]) for each
\* room whose effective width or effective height is <= 0, a missing length counted as 0,
\* and none for any other room.
C6_OneInvalidDimensionPerDegenerateRoom ==
  IssuesDone =>
    /\ \A k \in RoomIndices :
         /\ Cardinality(InvalidIssuesOf(InputRooms[k].id)) =
              IF EffectiveWidth(InputRooms[k]) <= 0 \/ EffectiveHeight(InputRooms[k]) <= 0
              THEN 1 ELSE 0
         /\ \A p \in InvalidIssuesOf(InputRooms[k].id) : IssueList[p].severity = "error"
    /\ \A p \in IssueIndices :
         IssueList[p].type = "invalid-dimension" =>
           \E k \in RoomIndices : IssueList[p].roomIds = <<InputRooms[k].id>>

\* one plan with a room of width 0, a room of negative height and a valid room whose
\* north length is 0, giving exactly two invalid-dimension issues
C6_Witness ==
  /\ IssuesDone
  /\ \E k \in RoomIndices :
       EffectiveWidth(InputRooms[k]) = 0 /\ EffectiveHeight(InputRooms[k]) > 0
  /\ \E k \in RoomIndices :
       EffectiveHeight(InputRooms[k]) < 0 /\ EffectiveWidth(InputRooms[k]) > 0
  /\ \E k \in RoomIndices :
       /\ InputRooms[k].walls.north.length = Some(0)
       /\ InputRooms[k].walls.west.length = None
       /\ InvalidIssuesOf(InputRooms[k].id) = {}
  /\ Cardinality({p \in IssueIndices : IssueList[p].type = "invalid-dimension"}) = 2

(* Duplicate walls.  Walls are numbered as the wall list is built: room by room, *)
(* sides north, east, south, west.                                               *)

WallIndices == 1..(4 * Len(InputRooms))

WallRoomIndex(a) == ((a - 1) \div 4) + 1

WallSideOf(a) == Sides[((a - 1) % 4) + 1]

WallRoom(a) == InputRooms[WallRoomIndex(a)]

WallBuilt(a) == WallRoom(a).walls[WallSideOf(a)].exists # Some(FALSE)

IsHorizontalSide(side) == side \in {"north", "south"}

\* the coordinate a wall lies on: y for north/south, x for east/west
FixedCoordinate(room, side) ==
  CASE side = "north" -> room.position.y
    [] side = "south" -> room.position.y + EffectiveHeight(room)
    [] side = "east"  -> room.position.x + EffectiveWidth(room)
    [] side = "west"  -> room.position.x

\* the wall's extent on the other axis, as <<low, high>>
WallRange(room, side) ==
  LET from == IF IsHorizontalSide(side) THEN room.position.x ELSE room.position.y
      to == from + (IF IsHorizontalSide(side) THEN EffectiveWidth(room)
                                              ELSE EffectiveHeight(room))
  IN  <<Smaller(from, to), Larger(from, to)>>

IsDuplicatePair(a, b) ==
  /\ WallRoom(a).id # WallRoom(b).id
  /\ WallBuilt(a)
  /\ WallBuilt(b)
  /\ IsHorizontalSide(WallSideOf(a)) = IsHorizontalSide(WallSideOf(b))
  /\ LET d == FixedCoordinate(WallRoom(a), WallSideOf(a))
              - FixedCoordinate(WallRoom(b), WallSideOf(b))
     IN  d <= 1 /\ -d <= 1
  /\ Smaller(WallRange(WallRoom(a), WallSideOf(a))[2], WallRange(WallRoom(b), WallSideOf(b))[2])
     - Larger(WallRange(WallRoom(a), WallSideOf(a))[1], WallRange(WallRoom(b), WallSideOf(b))[1])
     > 1

DuplicateWallId(a, b) ==
  <<"duplicate-wall", WallRoom(a).id, WallSideOf(a), WallRoom(b).id, WallSideOf(b)>>

DuplicateIssues == {p \in IssueIndices : IssueList[p].type = "duplicate-wall"}

\* the rule itself: one warning per unordered wall pair that satisfies it, none otherwise
DuplicateWallRule ==
  LET reported == {IssueList[p].id : p \in DuplicateIssues}
  IN  \* no two warnings for the same pair
      /\ Cardinality(reported) = Cardinality(DuplicateIssues)
      /\ \A a \in WallIndices, b \in WallIndices :
           a < b =>
             /\ DuplicateWallId(a, b) \in reported <=> IsDuplicatePair(a, b)
             /\ DuplicateWallId(b, a) \notin reported
      /\ \A p \in DuplicateIssues :
           /\ IssueList[p].severity = "warning"
           /\ IssueList[p].roomIds = <<IssueList[p].id[2], IssueList[p].id[4]>>
           /\ \E a \in WallIndices, b \in WallIndices :
                a < b /\ IssueList[p].id = DuplicateWallId(a, b)

\* room i's east wall and room j's west wall are the same segment
EastWestCoincide(i, j) ==
  /\ i # j
  /\ InputRooms[i].position.x + EffectiveWidth(InputRooms[i]) = InputRooms[j].position.x
  /\ InputRooms[i].position.y = InputRooms[j].position.y
  /\ EffectiveHeight(InputRooms[i]) = EffectiveHeight(InputRooms[j])

\* duplicate-wall warnings between two rooms, over all 16 wall pairs
WarningsBetween(i, j) ==
  {p \in IssueIndices :
     /\ IssueList[p].type = "duplicate-wall"
     /\ IssueList[p].roomIds \in {<<InputRooms[i].id, InputRooms[j].id>>,
                                  <<InputRooms[j].id, InputRooms[i].id>>}}

\* warnings for the pair (room i's east wall, room j's west wall)
EastWestWarnings(i, j) ==
  {p \in IssueIndices :
     IssueList[p].id \in {<<"duplicate-wall", InputRooms[i].id, "east", InputRooms[j].id, "west">>,
                          <<"duplicate-wall", InputRooms[j].id, "west", InputRooms[i].id, "east">>}}

BothBuilt(i, j) ==
  /\ InputRooms[i].walls.east.exists # Some(FALSE)
  /\ InputRooms[j].walls.west.exists # Some(FALSE)

AboveTolerance(room) == EffectiveWidth(room) > 1 /\ EffectiveHeight(room) > 1

\* C4 as stated: the rule, and therefore any two rooms whose east and west walls coincide
\* give exactly one duplicate-wall warning among their 16 wall pairs when both walls
\* exist, and none for that pair when either is virtual.
C4_CoincidentWallsGiveOneWarning ==
  IssuesDone =>
    /\ DuplicateWallRule
    /\ \A i \in RoomIndices, j \in RoomIndices :
         EastWestCoincide(i, j) =>
           IF BothBuilt(i, j) THEN Cardinality(WarningsBetween(i, j)) = 1
           ELSE EastWestWarnings(i, j) = {}

\* C4 amended: the rule, and therefore any two rooms, each more than 1 unit wide and more
\* than 1 unit high, whose east and west walls coincide give exactly one duplicate-wall
\* warning among their 16 wall pairs when both walls exist; whatever the room sizes, there
\* is none for that pair when either wall is virtual.
C4_CoincidentWallsOfWideRoomsGiveOneWarning ==
  IssuesDone =>
    /\ DuplicateWallRule
    /\ \A i \in RoomIndices, j \in RoomIndices :
         EastWestCoincide(i, j) =>
           /\ (BothBuilt(i, j) /\ AboveTolerance(InputRooms[i]) /\ AboveTolerance(InputRooms[j]))
                => Cardinality(WarningsBetween(i, j)) = 1
           /\ ~BothBuilt(i, j) => EastWestWarnings(i, j) = {}

\* a plan with two 3 x 3 rooms side by side (one warning) and a third room whose virtual
\* east wall coincides with a built west wall (no warning for that pair)
C4_Witness ==
  /\ IssuesDone
  /\ \E i \in RoomIndices, j \in RoomIndices :
       /\ EastWestCoincide(i, j)
       /\ BothBuilt(i, j)
       /\ AboveTolerance(InputRooms[i])
       /\ AboveTolerance(InputRooms[j])
       /\ Cardinality(WarningsBetween(i, j)) = 1
       /\ Cardinality(EastWestWarnings(i, j)) = 1
  /\ \E i \in RoomIndices, j \in RoomIndices :
       /\ EastWestCoincide(i, j)
       /\ InputRooms[i].walls.east.exists = Some(FALSE)
       /\ AboveTolerance(InputRooms[i])
       /\ AboveTolerance(InputRooms[j])
       /\ EastWestWarnings(i, j) = {}

(* Order of the issue list *)

TypeRank(type) ==
  CASE type = "invalid-dimension" -> 1
    [] type = "overlap" -> 2
    [] type = "duplicate-wall" -> 3

RoomIndexOf(roomId) == CHOOSE k \in RoomIndices : InputRooms[k].id = roomId

SideIndexOf(side) == CHOOSE i \in SideIndices : Sides[i] = side

WallIndexOf(roomId, side) == 4 * (RoomIndexOf(roomId) - 1) + SideIndexOf(side)

\* position of an issue within its category, as a pair compared lexicographically
OrderKey(issue) ==
  CASE issue.type = "invalid-dimension" -> <<RoomIndexOf(issue.roomIds[1]), 0>>
    [] issue.type = "overlap" ->
         <<RoomIndexOf(issue.roomIds[1]), RoomIndexOf(issue.roomIds[2])>>
    [] issue.type = "duplicate-wall" ->
         <<WallIndexOf(issue.id[2], issue.id[3]), WallIndexOf(issue.id[4], issue.id[5])>>

LexLess(u, v) == u[1] < v[1] \/ (u[1] = v[1] /\ u[2] < v[2])

\* C7: invalid-dimension issues come first, then overlaps, then duplicate walls;
\* invalid-dimension issues in room order, overlaps in (i, j) pair order with i < j,
\* duplicate walls in pair order over the wall list (room by room, north, east, south, west).
C7_IssuesOrderedByCategoryThenTraversal ==
  IssuesDone =>
    /\ \A p \in IssueIndices, q \in IssueIndices :
         p < q =>
           \/ TypeRank(IssueList[p].type) < TypeRank(IssueList[q].type)
           \/ /\ IssueList[p].type = IssueList[q].type
              /\ LexLess(OrderKey(IssueList[p]), OrderKey(IssueList[q]))
    /\ \A p \in IssueIndices :
         IssueList[p].type # "invalid-dimension" =>
           OrderKey(IssueList[p])[1] < OrderKey(IssueList[p])[2]

\* a list holding an invalid-dimension issue, an overlap and several duplicate walls, the
\* overlap being between the second and third room
C7_Witness ==
  /\ IssuesDone
  /\ \E p \in IssueIndices : IssueList[p].type = "invalid-dimension"
  /\ \E p \in IssueIndices :
       IssueList[p].type = "overlap" /\ OrderKey(IssueList[p]) = <<2, 3>>
  /\ Cardinality({p \in IssueIndices : IssueList[p].type = "duplicate-wall"}) >= 3

----------------------------------------------------------------------------
(* Properties of the geometry calculator *)

GeometryDone == geometry # None

GeometryRoom(k) == geometry[1].rooms[k]

\* the plan's scale, 0.2 when absent
PlanScale == IF floorPlan.scale = None THEN [n |-> 1, d |-> 5] ELSE floorPlan.scale[1]

\* v x scale for a plan-unit integer v
Times(v, sc) == Rat(v * sc.n, sc.d)

Point(px, py) == <<Times(px, PlanScale), Times(py, PlanScale)>>

SegmentStart(w) == <<w.x1, w.y1>>

SegmentEnd(w) == <<w.x2, w.y2>>

\* C8: a room's box is max(north, south) x scale wide and max(east, west) x scale high, and
\* its wall segments are the edges of the box: north (x,y)-(x+w,y), south (x,y+h)-(x+w,y+h),
\* east (x+w,y)-(x+w,y+h), west (x,y)-(x,y+h), all times scale (0.2 when absent).
C8_WallSegmentsAreBoxEdges ==
  GeometryDone =>
    \A k \in RoomIndices :
      LET room == InputRooms[k]
          x == room.position.x
          y == room.position.y
          w == EffectiveWidth(room)
          h == EffectiveHeight(room)
          g == GeometryRoom(k)
      IN  /\ g.width = Times(w, PlanScale)
          /\ g.height = Times(h, PlanScale)
          /\ <<g.x, g.y>> = Point(x, y)
          /\ SegmentStart(g.walls.north) = Point(x, y)
          /\ SegmentEnd(g.walls.north) = Point(x + w, y)
          /\ SegmentStart(g.walls.south) = Point(x, y + h)
          /\ SegmentEnd(g.walls.south) = Point(x + w, y + h)
          /\ SegmentStart(g.walls.east) = Point(x + w, y)
          /\ SegmentEnd(g.walls.east) = Point(x + w, y + h)
          /\ SegmentStart(g.walls.west) = Point(x, y)
          /\ SegmentEnd(g.walls.west) = Point(x, y + h)

\* scale 1: a 400 x 300 room at the origin (box 400 x 300, north (0,0)-(400,0)) and a room
\* whose opposite walls differ in length (350/400 wide, absent/250 high: box 400 x 250)
C8_Witness ==
  /\ GeometryDone
  /\ \E k \in RoomIndices :
       /\ InputRooms[k].position = [x |-> 0, y |-> 0]
       /\ InputRooms[k].walls.north.length = Some(400)
       /\ InputRooms[k].walls.south.length = Some(400)
       /\ InputRooms[k].walls.east.length = Some(300)
       /\ InputRooms[k].walls.west.length = Some(300)
       /\ floorPlan.scale = Some(RInt(1))
       /\ GeometryRoom(k).width = RInt(400)
       /\ GeometryRoom(k).height = RInt(300)
       /\ GeometryRoom(k).walls.north.x1 = RInt(0)
       /\ GeometryRoom(k).walls.north.y1 = RInt(0)
       /\ GeometryRoom(k).walls.north.x2 = RInt(400)
       /\ GeometryRoom(k).walls.north.y2 = RInt(0)
  /\ \E k \in RoomIndices :
       /\ InputRooms[k].walls.north.length = Some(350)
       /\ InputRooms[k].walls.east.length = None
       /\ GeometryRoom(k).width = RInt(400)
       /\ GeometryRoom(k).height = RInt(250)

\* C9: each wall's openings come out one for one in input order; the coordinate along the
\* wall is (room position + offset) x scale, the other coordinate is the wall's fixed
\* coordinate, the direction is the wall's side; the offset is never clamped.
C9_OpeningsPlacedAtOffset ==
  GeometryDone =>
    \A k \in RoomIndices, i \in SideIndices :
      LET room == InputRooms[k]
          side == Sides[i]
          ins == InputOpenings(room.walls[side])
          wall == GeometryRoom(k).walls[side]
          outs == wall.openings
      IN  /\ Len(outs) = Len(ins)
          /\ \A m \in 1..Len(ins) :
               /\ outs[m].type = ins[m].type
               /\ outs[m].direction = side
               /\ IF side \in {"north", "south"}
                  THEN /\ outs[m].x = Times(room.position.x + ins[m].offset, PlanScale)
                       /\ outs[m].y = wall.y1
                       /\ outs[m].y = wall.y2
                  ELSE /\ outs[m].y = Times(room.position.y + ins[m].offset, PlanScale)
                       /\ outs[m].x = wall.x1
                       /\ outs[m].x = wall.x2

\* a room away from the origin whose walls carry two openings, the first starting before
\* the wall (offset -30) and the second beyond the end of the wall of length 0
C9_Witness ==
  /\ GeometryDone
  /\ floorPlan.scale = None
  /\ \E k \in RoomIndices :
       /\ InputRooms[k].position = [x |-> 100, y |-> 50]
       /\ InputRooms[k].walls.east.length = None
       /\ Len(InputOpenings(InputRooms[k].walls.east)) = 2
       /\ InputOpenings(InputRooms[k].walls.east)[1].offset = -30
       /\ InputOpenings(InputRooms[k].walls.east)[2].offset = 200
       /\ GeometryRoom(k).walls.east.openings[1].y = RInt(4)
       /\ GeometryRoom(k).walls.east.openings[2].y = RInt(50)
       /\ GeometryRoom(k).walls.north.openings[1].x = RInt(14)
       /\ GeometryRoom(k).walls.north.openings[1].direction = "north"

RoomRight(k) == RAdd(GeometryRoom(k).x, GeometryRoom(k).width)

RoomBottom(k) == RAdd(GeometryRoom(k).y, GeometryRoom(k).height)

EmptyPlanGeometry == [width |-> RInt(0), height |-> RInt(0), rooms |-> <<>>]

\* C10 as stated: the overall width and height are the maxima over the rooms of
\* x + width and y + height, also for rooms at negative coordinates; an empty room list
\* gives width 0, height 0 and no rooms.
C10_OverallSizeIsMaxOverRooms ==
  GeometryDone =>
    IF Len(InputRooms) = 0 THEN geometry[1] = EmptyPlanGeometry
    ELSE /\ \A k \in RoomIndices : RLeq(RoomRight(k), geometry[1].width)
         /\ \E k \in RoomIndices : RoomRight(k) = geometry[1].width
         /\ \A k \in RoomIndices : RLeq(RoomBottom(k), geometry[1].height)
         /\ \E k \in RoomIndices : RoomBottom(k) = geometry[1].height

\* C10 amended: the overall width and height are the maxima of 0 and the rooms'
\* x + width, and of 0 and the rooms' y + height: rooms that end left of or above the
\* origin leave the size at 0; an empty room list gives width 0, height 0 and no rooms.
C10_OverallSizeIsMaxOverRoomsAndZero ==
  GeometryDone =>
    /\ Len(InputRooms) = 0 => geometry[1] = EmptyPlanGeometry
    /\ Len(geometry[1].rooms) = Len(InputRooms)
    /\ RLeq(RInt(0), geometry[1].width)
    /\ \A k \in RoomIndices : RLeq(RoomRight(k), geometry[1].width)
    /\ \/ geometry[1].width = RInt(0)
       \/ \E k \in RoomIndices : RoomRight(k) = geometry[1].width
    /\ RLeq(RInt(0), geometry[1].height)
    /\ \A k \in RoomIndices : RLeq(RoomBottom(k), geometry[1].height)
    /\ \/ geometry[1].height = RInt(0)
       \/ \E k \in RoomIndices : RoomBottom(k) = geometry[1].height

\* a room at (-700,-500) listed before a room at (100,50), scale 1: the overall size is
\* the second room's far corner, 500 x 350
C10_Witness ==
  /\ GeometryDone
  /\ floorPlan.scale = Some(RInt(1))
  /\ Len(InputRooms) = 2
  /\ InputRooms[1].position = [x |-> -700, y |-> -500]
  /\ InputRooms[2].position = [x |-> 100, y |-> 50]
  /\ RLess(RoomRight(1), RInt(0))
  /\ geometry[1].width = RInt(500)
  /\ geometry[1].height = RInt(350)

----------------------------------------------------------------------------
(* The defaults resolver on its own: one room whose north wall and plan    *)
(* defaults vary in every optional field, read by the resolver and by the  *)
(* three passes (scale 1).                                                 *)

MaxResolveOpenings == 1

ResolveOpeningSet ==
  {[type |-> t, offset |-> 50, width |-> f[1], height |-> f[2], fromFloor |-> f[3],
    to |-> None] :
     t \in {"door", "window"},
     f \in {<<None, None, None>>, <<Some(90), None, None>>, <<None, Some(200), None>>,
            <<None, None, Some(30)>>, <<Some(60), Some(0), Some(0)>>}}

ResolveNorthWalls ==
  {[length |-> a[1], exists |-> a[2], height |-> h, thickness |-> t, openings |-> o] :
     a \in {<<None, None>>, <<Some(400), Some(FALSE)>>, <<Some(400), Some(TRUE)>>},
     h \in {None, Some(250)},
     t \in {None, Some(20)},
     o \in {None} \cup {Some(q) : q \in SeqsUpTo(ResolveOpeningSet, MaxResolveOpenings)}}

ResolveDefaultsSet ==
  {None,
   Some([wall |-> None, door |-> None, window |-> None]),
   \* a window record holding only its width
   Some([wall   |-> Some([height |-> None, thickness |-> None]),
         door   |-> Some([width |-> None, height |-> None]),
         window |-> Some([width |-> Some(150), height |-> None, fromFloor |-> None])]),
   Some([wall   |-> Some([height |-> Some(300), thickness |-> None]),
         door   |-> Some([width |-> None, height |-> Some(220)]),
         window |-> None]),
   Some([wall   |-> Some([height |-> None, thickness |-> Some(10)]),
         door   |-> Some([width |-> Some(70), height |-> None]),
         window |-> Some([width |-> None, height |-> None, fromFloor |-> Some(80)])]),
   Some([wall   |-> Some([height |-> Some(260), thickness |-> Some(12)]),
         door   |-> Some([width |-> Some(95), height |-> Some(205)]),
         window |-> Some([width |-> Some(100), height |-> Some(110), fromFloor |-> Some(90)])])}

ResolvePlans ==
  {MkPlan(Some(RInt(1)), d,
          WithIds(<<MkRoom(None, 100, 50, n, PlainWall(Some(300)), PlainWall(Some(350)),
                           PlainWall(None))>>)) :
     d \in ResolveDefaultsSet, n \in ResolveNorthWalls}

InitResolve ==
  /\ floorPlan \in ResolvePlans
  /\ config = DEFAULT_ESTIMATE_CONFIG
  /\ geometry = None
  /\ issues = None
  /\ stats = None
  /\ resolvedWalls = None
  /\ history = None
  /\ flooring64 = None
  /\ editorState = None
  /\ dispatched = None
  /\ dispatchCount = None
  /\ cleanPlan = None
  /\ storage = None
  /\ clock = None
  /\ projectsCreated = None
  /\ lastCall = None
  /\ callCount = None

\* every wall of every room is resolved against the plan's defaults
ResolveDefaults ==
  /\ resolvedWalls = None
  /\ resolvedWalls' = Some([k \in 1..Len(floorPlan.floor.rooms) |->
                         [s \in SideSet |->
                            ResolveSide(floorPlan.floor.rooms[k].walls[s], floorPlan.defaults)]])
  /\ UNCHANGED <<floorPlan, config, geometry, issues, stats, history, flooring64, editorState, dispatched, dispatchCount, cleanPlan, storage, clock, projectsCreated, lastCall, callCount>>

NextResolve ==
  \/ ResolveDefaults
  \/ CalculateFloorGeometry
  \/ CalculateFloorPlanStats
  \/ ValidateFloorPlan

SpecResolve == InitResolve /\ [][NextResolve]_vars

----------------------------------------------------------------------------
(* Properties of the defaults resolver *)

ResolveDone == resolvedWalls # None

ResolvedSide(k, side) == resolvedWalls[1][k][side]

ExpectedWallThickness(wall) ==
  ThreeTier(wall.thickness, PlanDefault("wall", "thickness"), 15)

ExpectedWindowSill(o) == ThreeTier(o.fromFloor, PlanDefault("window", "fromFloor"), 100)

OpeningIndices(wall) == 1..Len(InputOpenings(wall))

\* C11: every optional height and thickness of a wall and every optional width, height
\* and (for a window) sill of an opening is the explicit value if present, else the
\* plan-level default if present, else the constant (280, 15; door 80 x 210; window
\* 120 x 120, sill 100), attribute by attribute; the result is always a number.  Both
\* the resolver and the statistics engine resolve this way.
C11_ThreeTierResolution ==
  \A k \in RoomIndices : \A i \in SideIndices :
    LET wall == InputWall(k, i)
        os == InputOpenings(wall)
    IN  /\ ResolveDone =>
             LET r == ResolvedSide(k, Sides[i])
             IN  /\ r.wall.height = ExpectedWallHeight(wall)
                 /\ r.wall.thickness = ExpectedWallThickness(wall)
                 /\ r.wall.height \in Int /\ r.wall.thickness \in Int
                 /\ Len(r.openings) = Len(os)
                 /\ \A j \in OpeningIndices(wall) :
                      /\ r.openings[j].width = ExpectedOpeningWidth(os[j])
                      /\ r.openings[j].height = ExpectedOpeningHeight(os[j])
                      /\ os[j].type = "window" =>
                           r.openings[j].fromFloor = ExpectedWindowSill(os[j])
                      /\ r.openings[j].width \in Int
                      /\ r.openings[j].height \in Int
                      /\ r.openings[j].fromFloor \in Int
        /\ StatsDone =>
             /\ StatsWall(k, i).height = ExpectedWallHeight(wall)
             /\ StatsWall(k, i).thickness = ExpectedWallThickness(wall)
             /\ StatsWall(k, i).openingsArea = cm2ToM2(ExpectedOpeningsCm2(wall))

\* the plan's window defaults hold only a width (150) and the north wall carries a
\* window without any explicit size: it resolves to 150 x 120 with sill 100, the wall
\* to height 280 and thickness 15
C11_Witness ==
  /\ ResolveDone
  /\ StatsDone
  /\ PlanDefault("window", "width") = Some(150)
  /\ PlanDefault("window", "height") = None
  /\ InputWall(1, 1).height = None
  /\ InputOpenings(InputWall(1, 1)) =
       <<[type |-> "window", offset |-> 50, width |-> None, height |-> None,
          fromFloor |-> None, to |-> None]>>
  /\ ResolvedSide(1, "north").openings[1].width = 150
  /\ ResolvedSide(1, "north").openings[1].height = 120
  /\ ResolvedSide(1, "north").openings[1].fromFloor = 100
  /\ ResolvedSide(1, "north").wall.height = 280
  /\ ResolvedSide(1, "north").wall.thickness = 15

RECURSIVE ResolvedOpeningsCm2(_, _)
ResolvedOpeningsCm2(os, j) ==
  IF j > Len(os) THEN 0 ELSE os[j].width * os[j].height + ResolvedOpeningsCm2(os, j + 1)

\* C12: for every room and side the geometry resolver and the statistics engine give
\* the wall the same length, height, thickness and exists flag and each of its
\* openings the same width and height; geometry (at scale 1), validation and
\* statistics work with the same room width and height.
C12_PassesAgreeOnEffectiveValues ==
  \A k \in RoomIndices :
    LET room == InputRooms[k]
        bounds == getRoomBounds(room)
    IN  /\ \A i \in SideIndices :
             (ResolveDone /\ StatsDone) =>
               LET r == ResolvedSide(k, Sides[i])
                   w == StatsWall(k, i)
               IN  /\ r.wall.length = w.length
                   /\ r.wall.height = w.height
                   /\ r.wall.thickness = w.thickness
                   /\ r.wall.exists = w.exists
                   /\ \A j \in 1..Len(r.openings) :
                        LET size == OpeningSize(InputOpenings(InputWall(k, i))[j],
                                                floorPlan.defaults)
                        IN  /\ r.openings[j].width = size.width
                            /\ r.openings[j].height = size.height
                   /\ w.openingsArea = cm2ToM2(ResolvedOpeningsCm2(r.openings, 1))
        /\ (GeometryDone /\ PlanScale = RInt(1)) =>
             /\ GeometryRoom(k).width = RInt(bounds.width)
             /\ GeometryRoom(k).height = RInt(bounds.height)
             /\ \A i \in SideIndices :
                  ResolveDone =>
                    /\ GeometryRoom(k).walls[Sides[i]].length
                         = RInt(ResolvedSide(k, Sides[i]).wall.length)
                    /\ GeometryRoom(k).walls[Sides[i]].exists
                         = ResolvedSide(k, Sides[i]).wall.exists
        /\ (GeometryDone /\ PlanScale = RInt(1) /\ StatsDone) =>
             /\ StatsRoom(k).floorArea = cm2ToM2(GeometryRoom(k).width.n * GeometryRoom(k).height.n)
             /\ \A i \in SideIndices :
                  GeometryRoom(k).walls[Sides[i]].thickness = RInt(StatsWall(k, i).thickness)

\* all passes have run on a plan with partial defaults (wall height 300, door height
\* 220) whose north wall is virtual, 400 long, and carries a door without a size:
\* every pass sees a 400 x 300 room, a wall 300 high and 15 thick, a door 80 x 220
C12_Witness ==
  /\ ResolveDone /\ StatsDone /\ GeometryDone /\ IssuesDone
  /\ PlanDefault("wall", "height") = Some(300)
  /\ InputWall(1, 1).exists = Some(FALSE)
  /\ InputWall(1, 1).height = None
  /\ InputWall(1, 1).thickness = None
  /\ Len(InputOpenings(InputWall(1, 1))) = 1
  /\ InputOpenings(InputWall(1, 1))[1].type = "door"
  /\ InputOpenings(InputWall(1, 1))[1].width = None
  /\ InputOpenings(InputWall(1, 1))[1].height = None
  /\ StatsWall(1, 1).height = 300
  /\ StatsWall(1, 1).thickness = 15
  /\ ~StatsWall(1, 1).exists
  /\ ResolvedSide(1, "north").wall.height = 300
  /\ ResolvedSide(1, "north").openings[1].width = 80
  /\ ResolvedSide(1, "north").openings[1].height = 220
  /\ StatsWall(1, 1).openingsArea = cm2ToM2(80 * 220)
  /\ GeometryRoom(1).width = RInt(400)
  /\ getRoomBounds(InputRooms[1]).width = 400

\* a resolved wall read as a Wall again: every field present
AsWall(r) ==
  [length |-> Some(r.length), height |-> Some(r.height), thickness |-> Some(r.thickness),
   exists |-> Some(r.exists), openings |-> Some(r.openings)]

\* C13: resolving an already resolved wall again, with the plan's Defaults or with any
\* other Defaults, returns a record equal to the first result.
C13_ResolveWallIsIdempotent ==
  ResolveDone =>
    \A k \in RoomIndices : \A i \in SideIndices :
      \A again \in ResolveDefaultsSet :
        resolveWall(AsWall(ResolvedSide(k, Sides[i]).wall), again)
          = ResolvedSide(k, Sides[i]).wall

\* a wall without height and thickness resolved under plan defaults (height 300) to
\* 300 x 15, virtual, with one opening; Defaults of height 260 and thickness 12 are
\* among those it is resolved with again
C13_Witness ==
  /\ ResolveDone
  /\ InputWall(1, 1).height = None
  /\ InputWall(1, 1).thickness = None
  /\ PlanDefault("wall", "height") = Some(300)
  /\ ResolvedSide(1, "north").wall.height = 300
  /\ ResolvedSide(1, "north").wall.thickness = 15
  /\ ~ResolvedSide(1, "north").wall.exists
  /\ Len(ResolvedSide(1, "north").wall.openings) = 1
  /\ \E again \in ResolveDefaultsSet :
       /\ DefaultsField2(again, "wall", "height") = Some(260)
       /\ DefaultsField2(again, "wall", "thickness") = Some(12)
       /\ resolveWall(AsWall(ResolvedSide(1, "north").wall), again).height = 300

----------------------------------------------------------------------------
(* Virtual walls in the statistics *)

IsVirtual(wall) == wall.exists = Some(FALSE)

BuiltSides(k) == {i \in SideIndices : ~IsVirtual(InputWall(k, i))}

\* sum of a sequence of rationals, of integers
RECURSIVE RSum(_, _)
RSum(q, j) == IF j > Len(q) THEN RInt(0) ELSE RAdd(q[j], RSum(q, j + 1))

RECURSIVE ISum(_, _)
ISum(q, j) == IF j > Len(q) THEN 0 ELSE q[j] + ISum(q, j + 1)

\* the room's quantities summed over its built walls alone
BuiltGross(k) ==
  RSum([i \in SideIndices |-> IF i \in BuiltSides(k)
                              THEN cm2ToM2(ExpectedGrossCm2(InputWall(k, i)))
                              ELSE RInt(0)], 1)

BuiltNet(k) ==
  RSum([i \in SideIndices |-> IF i \in BuiltSides(k)
                              THEN StatsWall(k, i).areaWithoutOpenings ELSE RInt(0)], 1)

BuiltPerimeter(k) ==
  cmToM(ISum([i \in SideIndices |-> IF i \in BuiltSides(k)
                                    THEN LengthOrZero(InputWall(k, i)) ELSE 0], 1))

BuiltBricks(k) ==
  ISum([i \in SideIndices |-> IF i \in BuiltSides(k) THEN StatsWall(k, i).brickCount
                              ELSE 0], 1)

\* the room with the exists flag of one wall changed: a virtual wall becomes built, a
\* built wall virtual
WithFlagChanged(room, side) ==
  [room EXCEPT !.walls[side].exists = IF IsVirtual(room.walls[side]) THEN Some(TRUE)
                                      ELSE Some(FALSE)]

\* C14: a wall with exists:false has brickCount 0 and adds nothing to its room's
\* wallsArea, wallsAreaWithoutOpenings, perimeter and brickCount (each is the sum over
\* the built walls alone), hence nothing to the plan totals, the masonry bricks and
\* mortar or the paintable wall area; changing only a wall's exists flag changes no
\* floor area and no volume (and so no flooring quantity, which derives from the
\* total floor area).
C14_VirtualWallsExcludedFromQuantities ==
  StatsDone =>
    LET m == stats[1].measurements
    IN  /\ \A k \in RoomIndices :
             /\ \A i \in SideIndices :
                  IsVirtual(InputWall(k, i)) =>
                    ~StatsWall(k, i).exists /\ StatsWall(k, i).brickCount = 0
             /\ StatsRoom(k).wallsArea = BuiltGross(k)
             /\ StatsRoom(k).wallsAreaWithoutOpenings = BuiltNet(k)
             /\ StatsRoom(k).perimeter = BuiltPerimeter(k)
             /\ StatsRoom(k).brickCount = BuiltBricks(k)
             /\ \A i \in SideIndices :
                  LET other == calculateRoomStats(WithFlagChanged(InputRooms[k], Sides[i]),
                                                  floorPlan.defaults, config)
                  IN  /\ other.floorArea = StatsRoom(k).floorArea
                      /\ other.volume = StatsRoom(k).volume
        /\ m.totalWallsArea = RSum([k \in RoomIndices |-> BuiltGross(k)], 1)
        /\ m.totalWallsAreaWithoutOpenings = RSum([k \in RoomIndices |-> BuiltNet(k)], 1)
        /\ m.totalPerimeter = RSum([k \in RoomIndices |-> BuiltPerimeter(k)], 1)
        /\ m.totalFloorArea = RSum([k \in RoomIndices |-> StatsRoom(k).floorArea], 1)
        /\ stats[1].materials.masonry.bricks = ISum([k \in RoomIndices |-> BuiltBricks(k)], 1)
        /\ stats[1].materials.masonry.mortar
             = RMul(Rat(ISum([k \in RoomIndices |-> BuiltBricks(k)], 1), 1000), Rat(1, 4))
        /\ stats[1].materials.paint.paintableWallArea
             = RMul(RSum([k \in RoomIndices |-> BuiltNet(k)], 1), Rat(3, 2))
        /\ stats[1].materials.flooring.netArea
             = RSum([k \in RoomIndices |-> StatsRoom(k).floorArea], 1)

\* a virtual north wall 400 long (gross area 11.2 m2, which would take bricks) in a
\* room whose other walls are built: the room's wall area and perimeter leave it out
C14_Witness ==
  /\ StatsDone
  /\ \E k \in RoomIndices :
       /\ IsVirtual(InputWall(k, 1))
       /\ InputWall(k, 1).length = Some(400)
       /\ StatsWall(k, 1).area = Rat(112, 10)
       /\ StatsWall(k, 1).brickCount = 0
       /\ BuiltSides(k) = {2, 3, 4}
       /\ StatsWall(k, 3).brickCount > 0
       /\ StatsRoom(k).perimeter = cmToM(300 + 400 + 300)
       /\ StatsRoom(k).wallsArea = cm2ToM2((300 + 400 + 300) * 280)
       /\ Positive(stats[1].materials.masonry.mortar)

----------------------------------------------------------------------------
(* Estimation family: rooms told apart by id and name, for the room types, *)
(* the electrical and plumbing points and the budget.                      *)

MaxEstimateRooms == 2

\* <<id, name>>
EstimateLabels ==
  {<<"sala-1", None>>, <<"r1", Some("Cozinha")>>, <<"wc1", None>>, <<"r2", Some("WC")>>,
   <<"BANHEIRO", None>>, <<"dormitorio", None>>, <<"r3", Some("Dormitório")>>,
   <<"lavanderia", None>>, <<"r4", Some("Lavanderia")>>, <<"quarto-2", Some("Cozinha")>>,
   <<"area-servico", Some("Sala")>>, <<"r5", Some("Área de Serviço")>>, <<"r6", None>>,
   <<"escritorio", Some("Quarto")>>}

EstimateRoom(label, width, height) ==
  [MkRoom(label[2], 0, 0, PlainWall(Some(width)), PlainWall(Some(height)),
          PlainWall(Some(width)), PlainWall(Some(height))) EXCEPT !.id = label[1]]

\* every label on a 400 x 300 room; one room without floor area and one whose negative
\* width gives a negative floor area
EstimateRooms ==
  {EstimateRoom(l, 400, 300) : l \in EstimateLabels}
    \cup {EstimateRoom(<<"r2", Some("WC")>>, 0, 300), EstimateRoom(<<"r6", None>>, -200, 300)}

\* room ids are unique within a plan
DistinctIds(q) == \A a \in 1..Len(q), b \in 1..Len(q) : a # b => q[a].id # q[b].id

EstimateRoomLists == {q \in SeqsUpTo(EstimateRooms, MaxEstimateRooms) : DistinctIds(q)}

EstimatePlans == {MkPlan(None, None, q) : q \in EstimateRoomLists}

\* the defaults and a user-tuned configuration (same rows, other numbers)
EstimateConfigSet ==
  {DEFAULT_ESTIMATE_CONFIG,
   [DEFAULT_ESTIMATE_CONFIG EXCEPT
      !.electrical.wirePerPoint = Rat(25, 2),
      !.electrical.byRoomType["sala"] = [outlets |-> 5, switches |-> 3, lights |-> 4],
      !.electrical.byRoomType["quarto"] = [outlets |-> 0, switches |-> 0, lights |-> 0],
      !.electrical.byRoomType["default"] = [outlets |-> 1, switches |-> 1, lights |-> 1],
      !.plumbing.pipePerPoint = Rat(7, 2),
      !.plumbing.byRoomType["banheiro"] = [coldWater |-> 1, hotWater |-> 0, drains |-> 0],
      !.plumbing.byRoomType["cozinha"] = [coldWater |-> 0, hotWater |-> 0, drains |-> 1],
      !.plumbing.byRoomType["area-servico"] = [coldWater |-> 0, hotWater |-> 0, drains |-> 0],
      !.paint.coverage = RInt(7),
      !.prices.paint_18l = Rat(2999, 10)]}

InitEstimate ==
  /\ floorPlan \in EstimatePlans
  /\ config \in EstimateConfigSet
  /\ geometry = None
  /\ issues = None
  /\ stats = None
  /\ resolvedWalls = None
  /\ history = None
  /\ flooring64 = None
  /\ editorState = None
  /\ dispatched = None
  /\ dispatchCount = None
  /\ cleanPlan = None
  /\ storage = None
  /\ clock = None
  /\ projectsCreated = None
  /\ lastCall = None
  /\ callCount = None

NextEstimate == CalculateFloorPlanStats

SpecEstimate == InitEstimate /\ [][NextEstimate]_vars

(* Room types *)

\* whether the lower-cased text of s contains the keyword
Mentions(s, keyword) == includes(toLowerCase(Chars(s)), Chars(keyword))

\* the rule as the specification states it: each keyword is looked for in the id and in
\* the name, keywords in their order (living = "sala", kitchen = "cozinha",
\* bathroom = "banheiro", bedroom = "quarto", utility = "area-servico")
StatedRoomType(room) ==
  LET has(w) == Mentions(room.id, w) \/ Mentions(Nullish(room.name, ""), w)
  IN  CASE has("sala") -> "sala"
        [] has("cozinha") -> "cozinha"
        [] has("banheiro") \/ has("wc") -> "banheiro"
        [] has("quarto") \/ has("dormit") -> "quarto"
        [] has("servico") \/ has("lavanderia") -> "area-servico"
        [] OTHER -> "default"

\* C15: a room's type is decided by the first keyword, in the order sala, cozinha,
\* banheiro/wc, quarto/dormit, servico/lavanderia, that occurs (case-insensitively) in
\* the room's id or in its name, default when none does; every keyword, wc, dormit and
\* lavanderia included, counts in the id as well as in the name.
C15_RoomTypeByKeywordInIdOrName ==
  StatsDone => \A k \in RoomIndices : StatsRoom(k).type = StatedRoomType(InputRooms[k])

----------------------------------------------------------------------------
(* Paint and flooring quantities *)

\* net area of one wall in cm2, from the plan: gross minus openings, not below 0
ExpectedNetCm2(wall) ==
  LET diff == ExpectedGrossCm2(wall) - ExpectedOpeningsCm2(wall)
  IN  IF diff < 0 THEN 0 ELSE diff

\* net cm2 of the built walls of all rooms
ExpectedBuiltNetCm2 ==
  ISum([k \in RoomIndices |->
          ISum([i \in SideIndices |-> IF IsVirtual(InputWall(k, i)) THEN 0
                                      ELSE ExpectedNetCm2(InputWall(k, i))], 1)], 1)

\* floor cm2 of all rooms: width x height
ExpectedFloorCm2 ==
  ISum([k \in RoomIndices |-> EffectiveWidth(InputRooms[k]) * EffectiveHeight(InputRooms[k])], 1)

\* smallest integer not below n / d, for d > 0
CeilDiv(n, d) == -((-n) \div d)

\* ceil(area x times / per) for rationals
CeilOf(area, times, per) ==
  CeilDiv(area.n * times.n * per.d, area.d * times.d * per.n)

\* C16: paintable wall area = 1.5 x the summed net areas of the walls that exist;
\* paint = ceil(paintable x coats / coverage), primer = ceil(paintable x primerCoats /
\* primerCoverage), putty = ceil(paintable x (puttyPercentage / 100) / puttyCoverage);
\* ceiling paint = ceil(total floor area x coats / coverage), without the factor 1.5.
C16_PaintQuantities ==
  StatsDone =>
    LET p == stats[1].materials.paint
        paintable == Rat(3 * ExpectedBuiltNetCm2, 2 * CM2_PER_M2)
        floor == Rat(ExpectedFloorCm2, CM2_PER_M2)
    IN  /\ p.paintableWallArea = paintable
        /\ p.paint = CeilOf(paintable, config.paint.coats, config.paint.coverage)
        /\ p.primer = CeilOf(paintable, config.paint.primerCoats, config.paint.primerCoverage)
        /\ p.putty = CeilOf(paintable, Rat(config.paint.puttyPercentage.n,
                                           100 * config.paint.puttyPercentage.d),
                            config.paint.puttyCoverage)
        /\ p.ceilingArea = floor
        /\ p.ceilingPaint = CeilOf(floor, config.paint.coats, config.paint.coverage)

\* one 400 x 300 room, walls 280 high, north wall virtual: built net area 28 m2,
\* paintable 42 m2, 9 l paint, 4 l primer, 10 kg putty; ceiling 12 m2, 3 l
C16_Witness ==
  /\ StatsDone
  /\ Len(InputRooms) = 1
  /\ IsVirtual(InputWall(1, 1))
  /\ StatsWall(1, 1).areaWithoutOpenings = Rat(112, 10)
  /\ stats[1].measurements.totalWallsAreaWithoutOpenings = RInt(28)
  /\ stats[1].materials.paint.paintableWallArea = RInt(42)
  /\ stats[1].materials.paint.paint = 9
  /\ stats[1].materials.paint.primer = 4
  /\ stats[1].materials.paint.putty = 10
  /\ stats[1].materials.paint.ceilingArea = RInt(12)
  /\ stats[1].materials.paint.ceilingPaint = 3

\* C17: flooring netArea = total floor area = sum over rooms of width x height in m2;
\* tiles = netArea x wasteFactor, not rounded; grout = ceil(netArea x groutPerM2) and
\* adhesive = ceil(netArea x adhesivePerM2), whole numbers.
C17_FlooringQuantities ==
  StatsDone =>
    LET f == stats[1].materials.flooring
        floor == Rat(ExpectedFloorCm2, CM2_PER_M2)
    IN  /\ stats[1].measurements.totalFloorArea = floor
        /\ f.netArea = floor
        /\ f.tiles = Rat(floor.n * config.flooring.wasteFactor.n,
                         floor.d * config.flooring.wasteFactor.d)
        /\ f.grout = CeilOf(floor, config.flooring.groutPerM2, RInt(1))
        /\ f.adhesive = CeilOf(floor, config.flooring.adhesivePerM2, RInt(1))
        /\ f.grout \in Int /\ f.adhesive \in Int

\* a single 100 x 300 room: 3 m2, 3.3 m2 of tiles (not rounded), 2 kg grout
\* (1.5 rounded up), 15 kg adhesive
C17_Witness ==
  /\ StatsDone
  /\ Len(InputRooms) = 1
  /\ stats[1].materials.flooring.netArea = RInt(3)
  /\ stats[1].materials.flooring.tiles = Rat(33, 10)
  /\ stats[1].materials.flooring.grout = 2
  /\ stats[1].materials.flooring.adhesive = 15

----------------------------------------------------------------------------
(* Electrical and plumbing points *)

\* the row a type table holds for a room type, none when the table has no such row
TableRow(table, roomType) == IF roomType \in DOMAIN table THEN Some(table[roomType]) ELSE None

\* one count of the room's row in the electrical table (the default row for a type
\* without a row), and in the plumbing table (nothing for a type without a row)
ElectricalCount(k, field) ==
  LET table == config.electrical.byRoomType
  IN  Nullish(TableRow(table, StatsRoom(k).type), table["default"])[field]

PlumbingCount(k, field) ==
  LET row == TableRow(config.plumbing.byRoomType, StatsRoom(k).type)
  IN  IF row = None THEN 0 ELSE row[1][field]

ElectricalTotal(field) == ISum([k \in RoomIndices |-> ElectricalCount(k, field)], 1)

PlumbingTotal(field) == ISum([k \in RoomIndices |-> PlumbingCount(k, field)], 1)

\* C18: outlets, switches and light points, and cold-water, hot-water and drain points,
\* are the sums over the rooms of the counts the config's table holds for the room's
\* type, whatever the room's size; wireEstimate = (outlets + switches + lightPoints) x
\* wirePerPoint and pipeEstimate = (cold + hot + drains) x pipePerPoint.
C18_PointsSummedFromTypeTable ==
  StatsDone =>
    LET e == stats[1].materials.electrical
        pl == stats[1].materials.plumbing
    IN  /\ e.outlets = ElectricalTotal("outlets")
        /\ e.switches = ElectricalTotal("switches")
        /\ e.lightPoints = ElectricalTotal("lights")
        /\ e.wireEstimate = Rat((e.outlets + e.switches + e.lightPoints)
                                  * config.electrical.wirePerPoint.n,
                                config.electrical.wirePerPoint.d)
        /\ pl.coldWaterPoints = PlumbingTotal("coldWater")
        /\ pl.hotWaterPoints = PlumbingTotal("hotWater")
        /\ pl.drainPoints = PlumbingTotal("drains")
        /\ pl.pipeEstimate = Rat((pl.coldWaterPoints + pl.hotWaterPoints + pl.drainPoints)
                                   * config.plumbing.pipePerPoint.n,
                                 config.plumbing.pipePerPoint.d)
        /\ Len(e.byRoom) = Len(InputRooms)

\* default config, a bathroom without floor area (0 x 300) and a 400 x 300 kitchen:
\* 2 + 8 outlets, 1 + 2 switches, 2 + 2 lights, 17 x 8 = 136 m of wire; 3 + 2 cold,
\* 2 + 1 hot, 3 + 2 drains, 13 x 3 = 39 m of pipe
C18_Witness ==
  /\ StatsDone
  /\ config = DEFAULT_ESTIMATE_CONFIG
  /\ Len(InputRooms) = 2
  /\ StatsRoom(1).type = "banheiro" /\ StatsRoom(1).floorArea = RInt(0)
  /\ StatsRoom(2).type = "cozinha" /\ StatsRoom(2).floorArea = RInt(12)
  /\ stats[1].materials.electrical.outlets = 10
  /\ stats[1].materials.electrical.switches = 3
  /\ stats[1].materials.electrical.lightPoints = 4
  /\ stats[1].materials.electrical.wireEstimate = RInt(136)
  /\ stats[1].materials.plumbing.coldWaterPoints = 5
  /\ stats[1].materials.plumbing.hotWaterPoints = 3
  /\ stats[1].materials.plumbing.drainPoints = 5
  /\ stats[1].materials.plumbing.pipeEstimate = RInt(39)

----------------------------------------------------------------------------
(* Budget *)

BudgetCategories == {"Alvenaria", "Pintura", "Piso", "Elétrica", "Hidráulica"}

BudgetLines == stats[1].budget.items

\* the budget holds exactly one line of this name, for this many units at this price
PricedAs(name, units, unitPrice) ==
  /\ Cardinality({i \in 1..Len(BudgetLines) : BudgetLines[i].item = name}) = 1
  /\ \A i \in 1..Len(BudgetLines) :
       BudgetLines[i].item = name =>
         /\ BudgetLines[i].category = "Pintura"
         /\ BudgetLines[i].quantity = RInt(units)
         /\ BudgetLines[i].unitPrice = unitPrice
         /\ BudgetLines[i].total = Rat(units * unitPrice.n, unitPrice.d)

\* the totals of the lines of one category, 0 for the lines of the others
TotalsOf(category) ==
  [i \in 1..Len(BudgetLines) |->
     IF BudgetLines[i].category = category THEN BudgetLines[i].total ELSE RInt(0)]

\* C19: paint, primer and ceiling-paint liters are priced as ceil(liters / 18) cans and
\* putty as ceil(kg / 25) sacks; each of the five subtotals is the sum of the totals of
\* the lines of its category, every line is of one of the five categories, and the
\* grand total is the sum of the five subtotals, hence of all line totals.
C19_BudgetCansAndSubtotals ==
  StatsDone =>
    LET paint == stats[1].materials.paint
        budget == stats[1].budget
        sub == budget.subtotals
    IN  /\ PricedAs(<<"Tinta látex (paredes) 18L">>, CeilDiv(paint.paint, 18),
                    config.prices.paint_18l)
        /\ PricedAs(<<"Selador/Fundo 18L">>, CeilDiv(paint.primer, 18),
                    config.prices.primer_18l)
        /\ PricedAs(<<"Tinta látex (teto) 18L">>, CeilDiv(paint.ceilingPaint, 18),
                    config.prices.paint_18l)
        /\ PricedAs(<<"Massa corrida 25kg">>, CeilDiv(paint.putty, 25),
                    config.prices.putty_25kg)
        /\ \A i \in 1..Len(BudgetLines) : BudgetLines[i].category \in BudgetCategories
        /\ sub.masonry = RSum(TotalsOf("Alvenaria"), 1)
        /\ sub.paint = RSum(TotalsOf("Pintura"), 1)
        /\ sub.flooring = RSum(TotalsOf("Piso"), 1)
        /\ sub.electrical = RSum(TotalsOf("Elétrica"), 1)
        /\ sub.plumbing = RSum(TotalsOf("Hidráulica"), 1)
        /\ budget.total = RAdd(sub.masonry, RAdd(sub.paint, RAdd(sub.flooring,
                                 RAdd(sub.electrical, sub.plumbing))))
        /\ budget.total = RSum([i \in 1..Len(BudgetLines) |-> BudgetLines[i].total], 1)

\* two rooms under the default prices: liters that are no multiple of 18 are priced
\* as whole cans, and all five categories carry a line
C19_Witness ==
  /\ StatsDone
  /\ config = DEFAULT_ESTIMATE_CONFIG
  /\ Len(InputRooms) = 2
  /\ stats[1].materials.paint.paint % 18 # 0
  /\ stats[1].materials.paint.paint > 18
  /\ stats[1].materials.paint.putty % 25 # 0
  /\ \A c \in BudgetCategories : \E i \in 1..Len(BudgetLines) : BudgetLines[i].category = c
  /\ RLess(RInt(0), stats[1].budget.subtotals.plumbing)
  /\ RLess(stats[1].budget.subtotals.paint, stats[1].budget.total)

\* C20: budget.perM2 is budget.total / totalFloorArea when the total floor area is
\* positive and exactly 0 when it is 0 (no rooms, or rooms without area) or negative;
\* no division by zero takes place.
C20_PerM2GuardedByPositiveArea ==
  StatsDone =>
    LET area == stats[1].measurements.totalFloorArea
        budget == stats[1].budget
    IN  /\ area = Rat(ExpectedFloorCm2, CM2_PER_M2)
        /\ budget.perM2.d # 0
        /\ ExpectedFloorCm2 > 0 =>
             /\ RMul(budget.perM2, area) = budget.total
             /\ budget.perM2 = Rat(budget.total.n * area.d, budget.total.d * area.n)
        /\ ExpectedFloorCm2 <= 0 => budget.perM2 = RInt(0)

\* a bathroom of 0 x 300 alone: no floor area, yet a positive total (its walls, points)
C20_Witness ==
  /\ StatsDone
  /\ Len(InputRooms) = 1
  /\ stats[1].measurements.totalFloorArea = RInt(0)
  /\ RLess(RInt(0), stats[1].budget.total)
  /\ stats[1].budget.perM2 = RInt(0)

\* a single room of -200 x 300: a negative floor area and a total that is not 0
C20_NegativeAreaReached ==
  /\ StatsDone
  /\ RLess(stats[1].measurements.totalFloorArea, RInt(0))
  /\ stats[1].budget.total # RInt(0)

\* a plan without rooms, and a plan with positive area and a positive price per m2
C20_EmptyPlanReached == StatsDone /\ Len(InputRooms) = 0 /\ stats[1].budget.perM2 = RInt(0)

C20_PositiveAreaReached ==
  /\ StatsDone
  /\ RLess(RInt(0), stats[1].measurements.totalFloorArea)
  /\ RLess(RInt(0), stats[1].budget.perM2)

----------------------------------------------------------------------------
(* The passes called again: the views recompute them on every render that  *)
(* hands them the plan (useMemo), so each pass runs a second time on the   *)
(* plan the first round has seen.                                          *)

MaxRenderRooms == 3

\* six rooms that touch, overlap and coincide; one has no floor area
RenderRooms ==
  {[MkRoom(Some("Sala"), 0, 0,
           MkWall(Some(540), None, None, Some(<<MkOpening("window", 200, Some(120), None)>>)),
           PlainWall(Some(200)), PlainWall(Some(540)), PlainWall(Some(200)))
      EXCEPT !.id = "r1"],
   [MkRoom(Some("Cozinha"), 540, 0, PlainWall(Some(540)), PlainWall(Some(550)),
           PlainWall(Some(540)), PlainWall(Some(550))) EXCEPT !.id = "r2"],
   [MkRoom(Some("WC"), 500, 100, PlainWall(Some(290)), PlainWall(Some(100)),
           PlainWall(Some(290)), PlainWall(Some(100))) EXCEPT !.id = "r3"],
   [MkRoom(None, 0, 0, PlainWall(Some(0)), PlainWall(Some(300)),
           PlainWall(Some(0)), PlainWall(Some(300))) EXCEPT !.id = "r4"],
   [MkRoom(Some("Quarto"), 0, 0, PlainWall(Some(540)),
           MkWall(Some(200), None, Some(FALSE), None),
           PlainWall(Some(540)), PlainWall(Some(200))) EXCEPT !.id = "r5"],
   [MkRoom(Some("Área de Serviço"), 0, 200, PlainWall(Some(400)), PlainWall(Some(300)),
           PlainWall(Some(400)), PlainWall(Some(300))) EXCEPT !.id = "r6"]}

RenderRoomLists == {q \in SeqsUpTo(RenderRooms, MaxRenderRooms) : DistinctIds(q)}

RenderPlans == {MkPlan(None, None, q) : q \in RenderRoomLists}

InitRerender ==
  /\ floorPlan \in RenderPlans
  /\ config \in EstimateConfigSet
  /\ geometry = None
  /\ issues = None
  /\ stats = None
  /\ resolvedWalls = None
  /\ history = Some([floorPlan |-> floorPlan, config |-> config, first |-> None])
  /\ flooring64 = None
  /\ editorState = None
  /\ dispatched = None
  /\ dispatchCount = None
  /\ cleanPlan = None
  /\ storage = None
  /\ clock = None
  /\ projectsCreated = None
  /\ lastCall = None
  /\ callCount = None

\* the next render: the results of the first round are kept aside and the three
\* passes are due again on the plan as it now is
Rerender ==
  /\ history # None
  /\ history[1].first = None
  /\ geometry # None /\ issues # None /\ stats # None
  /\ history' = Some([history[1] EXCEPT
                        !.first = Some([geometry |-> geometry[1], issues |-> issues[1],
                                        stats |-> stats[1]])])
  /\ geometry' = None
  /\ issues' = None
  /\ stats' = None
  /\ UNCHANGED <<floorPlan, config, resolvedWalls, flooring64, editorState, dispatched, dispatchCount, cleanPlan, storage, clock, projectsCreated, lastCall, callCount>>

NextRerender ==
  ValidateFloorPlan \/ CalculateFloorGeometry \/ CalculateFloorPlanStats \/ Rerender

SpecRerender == InitRerender /\ [][NextRerender]_vars

----------------------------------------------------------------------------
(* The number type of the source is IEEE-754 binary64.  The passes above    *)
(* are computed exactly; the chain floor area -> total floor area ->        *)
(* flooring quantities is computed here as the source computes it, every    *)
(* division, sum and product rounded to nearest, ties to even.  A value is  *)
(* [m, e], standing for m * 2^e, m a 53-bit natural written in limbs of 15  *)
(* bits, least significant first (no limbs for 0).  Values are finite, >= 0. *)

F64_MANTISSA_BITS == 53

\* extra quotient bits of a division, so that the quotient has more than 54 bits
F64_DIVISION_SHIFT == 70

LIMB_BITS == 15

LIMB_BASE == 32768

RECURSIVE Pow2(_)
Pow2(k) == IF k = 0 THEN 1 ELSE 2 * Pow2(k - 1)

RECURSIVE NatOf(_)
NatOf(n) == IF n = 0 THEN <<>> ELSE <<n % LIMB_BASE>> \o NatOf(n \div LIMB_BASE)

RECURSIVE NatValue(_)
NatValue(a) == IF a = <<>> THEN 0 ELSE a[1] + LIMB_BASE * NatValue(Tail(a))

\* without the leading (most significant) zero limbs
RECURSIVE NatTrim(_)
NatTrim(a) ==
  IF a = <<>> \/ a[Len(a)] # 0 THEN a ELSE NatTrim(SubSeq(a, 1, Len(a) - 1))

LimbAt(a, i) == IF i >= 1 /\ i <= Len(a) THEN a[i] ELSE 0

RECURSIVE NatAddFrom(_, _, _, _)
NatAddFrom(a, b, i, carry) ==
  IF i > Len(a) /\ i > Len(b) THEN (IF carry > 0 THEN <<carry>> ELSE <<>>)
  ELSE LET sum == LimbAt(a, i) + LimbAt(b, i) + carry
       IN  <<sum % LIMB_BASE>> \o NatAddFrom(a, b, i + 1, sum \div LIMB_BASE)

NatAdd(a, b) == NatAddFrom(a, b, 1, 0)

\* a * c for a small c (c <= LIMB_BASE)
RECURSIVE NatMulSmallFrom(_, _, _, _)
NatMulSmallFrom(a, c, i, carry) ==
  IF i > Len(a) THEN (IF carry > 0 THEN <<carry>> ELSE <<>>)
  ELSE LET prod == a[i] * c + carry
       IN  <<prod % LIMB_BASE>> \o NatMulSmallFrom(a, c, i + 1, prod \div LIMB_BASE)

NatMulSmall(a, c) == NatTrim(NatMulSmallFrom(a, c, 1, 0))

RECURSIVE NatMul(_, _)
NatMul(a, b) ==
  IF b = <<>> \/ a = <<>> THEN <<>>
  ELSE NatTrim(NatAdd(NatMulSmall(a, b[1]), <<0>> \o NatMul(a, Tail(b))))

\* long division of the limbs i, i - 1, ..., 1 of a by the small number d, r carried in
RECURSIVE NatDivFrom(_, _, _, _)
NatDivFrom(a, i, r, d) ==
  IF i = 0 THEN [q |-> <<>>, r |-> r]
  ELSE LET cur == r * LIMB_BASE + a[i]
           lower == NatDivFrom(a, i - 1, cur % d, d)
       IN  [q |-> Append(lower.q, cur \div d), r |-> lower.r]

\* quotient and remainder of a by d, 0 < d < LIMB_BASE
NatDivSmall(a, d) ==
  LET res == NatDivFrom(a, Len(a), 0, d)
  IN  [q |-> NatTrim(res.q), r |-> res.r]

RECURSIVE BitLength(_)
BitLength(n) == IF n = 0 THEN 0 ELSE 1 + BitLength(n \div 2)

NatBitLength(a) == IF a = <<>> THEN 0 ELSE (Len(a) - 1) * LIMB_BITS + BitLength(a[Len(a)])

\* bit i of a, the least significant being bit 0
NatBit(a, i) == (LimbAt(a, (i \div LIMB_BITS) + 1) \div Pow2(i % LIMB_BITS)) % 2

\* a * 2^k
NatShiftLeft(a, k) ==
  IF a = <<>> THEN <<>>
  ELSE [i \in 1..(k \div LIMB_BITS) |-> 0] \o NatMulSmall(a, Pow2(k % LIMB_BITS))

\* a \div 2^k
NatShiftRight(a, k) ==
  IF k \div LIMB_BITS >= Len(a) THEN <<>>
  ELSE NatDivSmall(SubSeq(a, (k \div LIMB_BITS) + 1, Len(a)), Pow2(k % LIMB_BITS)).q

\* a % 2^k # 0
NatLowBitsSet(a, k) == \E i \in 0..(k - 1) : NatBit(a, i) = 1

\* the binary64 nearest to n * 2^e (plus a little, when sticky): ties to even
F64Round(n, e, sticky) ==
  LET len == NatBitLength(n)
      k == len - F64_MANTISSA_BITS
  IN  IF len = 0 THEN [m |-> <<>>, e |-> 0]
      ELSE IF k <= 0 THEN [m |-> NatShiftLeft(n, -k), e |-> e + k]
      ELSE LET kept == NatShiftRight(n, k)
               rest == sticky \/ NatLowBitsSet(n, k - 1)
               up == NatBit(n, k - 1) = 1 /\ (rest \/ NatBit(kept, 0) = 1)
               m == IF up THEN NatAdd(kept, <<1>>) ELSE kept
           IN  IF NatBitLength(m) > F64_MANTISSA_BITS
               THEN [m |-> NatShiftRight(m, 1), e |-> e + k + 1]
               ELSE [m |-> m, e |-> e + k]

\* a / b of two integers, 0 <= a, 0 < b < LIMB_BASE
F64Ratio(a, b) ==
  LET res == NatDivSmall(NatShiftLeft(NatOf(a), F64_DIVISION_SHIFT), b)
  IN  F64Round(res.q, -F64_DIVISION_SHIFT, res.r # 0)

\* x + y
F64Add(x, y) ==
  IF x.m = <<>> THEN y
  ELSE IF y.m = <<>> THEN x
  ELSE LET e == Min(x.e, y.e)
       IN  F64Round(NatAdd(NatShiftLeft(x.m, x.e - e), NatShiftLeft(y.m, y.e - e)), e, FALSE)

\* x * y
F64Mul(x, y) == F64Round(NatMul(x.m, y.m), x.e + y.e, FALSE)

\* Math.ceil(x), for x < 2^31
F64Ceil(x) ==
  IF x.e >= 0 THEN NatValue(NatShiftLeft(x.m, x.e))
  ELSE LET whole == NatValue(NatShiftRight(x.m, -x.e))
       IN  IF NatLowBitsSet(x.m, -x.e) THEN whole + 1 ELSE whole

\* a configuration number written as the decimal n / d
F64Of(r) == F64Ratio(r.n, r.d)

\* calculateRoomStats: floorArea = (width * height) / 10000
floorArea64(room) ==
  LET width == Max(Nullish(room.walls.north.length, 0), Nullish(room.walls.south.length, 0))
      height == Max(Nullish(room.walls.east.length, 0), Nullish(room.walls.west.length, 0))
  IN  F64Ratio(width * height, CM2_PER_M2)

\* calculateMeasurements: rooms.reduce((sum, r) => sum + r.floorArea, 0)
RECURSIVE totalFloorArea64(_, _, _)
totalFloorArea64(rooms, k, sum) ==
  IF k > Len(rooms) THEN sum
  ELSE totalFloorArea64(rooms, k + 1, F64Add(sum, floorArea64(rooms[k])))

\* calculateFlooring on the rooms of the plan
calculateFlooring64(rooms, cfg) ==
  LET netArea == totalFloorArea64(rooms, 1, F64Ratio(0, 1))
      tiles == F64Mul(netArea, F64Of(cfg.flooring.wasteFactor))
      grout == F64Ceil(F64Mul(netArea, F64Of(cfg.flooring.groutPerM2)))
      adhesive == F64Ceil(F64Mul(netArea, F64Of(cfg.flooring.adhesivePerM2)))
  IN  [tiles |-> tiles, grout |-> grout, adhesive |-> adhesive, netArea |-> netArea]

(* The order of the rooms *)

InitOrder ==
  /\ floorPlan \in RenderPlans
  /\ config \in EstimateConfigSet
  /\ geometry = None
  /\ issues = None
  /\ stats = None
  /\ resolvedWalls = None
  /\ history = None
  /\ flooring64 = None
  /\ editorState = None
  /\ dispatched = None
  /\ dispatchCount = None
  /\ cleanPlan = None
  /\ storage = None
  /\ clock = None
  /\ projectsCreated = None
  /\ lastCall = None
  /\ callCount = None

\* the flooring quantities of calculateFloorPlanStats, in binary64
CalculateFlooring64 ==
  /\ flooring64 = None
  /\ flooring64' = Some(calculateFlooring64(floorPlan.floor.rooms, config))
  /\ UNCHANGED <<floorPlan, config, geometry, issues, stats, resolvedWalls, history, editorState, dispatched, dispatchCount, cleanPlan, storage, clock, projectsCreated, lastCall, callCount>>

NextOrder == ValidateFloorPlan \/ CalculateFloorPlanStats \/ CalculateFlooring64

SpecOrder == InitOrder /\ [][NextOrder]_vars

OrderDone == issues # None /\ stats # None /\ flooring64 # None

RoomOrders(n) ==
  {f \in [1..n -> 1..n] : \A a \in 1..n, b \in 1..n : a # b => f[a] # f[b]}

\* the plan with its rooms in the order f
Reordered(f) ==
  [floorPlan EXCEPT !.floor.rooms = [k \in 1..Len(@) |-> @[f[k]]]]

\* what identifies an issue: its type, its rooms, and its overlap rectangle or its two
\* walls
IssueKey(issue) ==
  [type      |-> issue.type,
   rooms     |-> {issue.roomIds[k] : k \in 1..Len(issue.roomIds)},
   rectangle |-> IF issue.type = "overlap" THEN issue.details.overlapArea ELSE None,
   walls     |-> IF issue.type = "duplicate-wall"
                 THEN {<<issue.id[2], issue.id[3]>>, <<issue.id[4], issue.id[5]>>}
                 ELSE {}]

IssueKeys(list) == {IssueKey(list[p]) : p \in 1..Len(list)}

\* the totals, quantities and sums of the statistics, without the per-room lists
StatsTotals(st) ==
  [floorArea   |-> st.measurements.totalFloorArea,
   wallsArea   |-> st.measurements.totalWallsArea,
   netArea     |-> st.measurements.totalWallsAreaWithoutOpenings,
   volume      |-> st.measurements.totalVolume,
   perimeter   |-> st.measurements.totalPerimeter,
   roomCount   |-> st.measurements.roomCount,
   masonry     |-> st.materials.masonry,
   paint       |-> st.materials.paint,
   flooring    |-> st.materials.flooring,
   electrical  |-> [st.materials.electrical EXCEPT !.byRoom = <<>>],
   plumbing    |-> [st.materials.plumbing EXCEPT !.byRoom = <<>>],
   subtotals   |-> st.budget.subtotals,
   total       |-> st.budget.total]

\* the issues do not depend on the order of the rooms
OrderIndependentIssues ==
  OrderDone =>
    \A f \in RoomOrders(Len(InputRooms)) :
      IssueKeys(validateFloorPlan(Reordered(f))) = IssueKeys(issues[1])

\* nor do the statistics, were sums and products exact
OrderIndependentExactTotals ==
  OrderDone =>
    \A f \in RoomOrders(Len(InputRooms)) :
      StatsTotals(calculateFloorPlanStats(Reordered(f), config)) = StatsTotals(stats[1])

\* C22: for every permutation of floor.rooms, validateFloorPlan reports the same set
\* of issues (by type, rooms, overlap rectangle or pair of walls) and
\* calculateFloorPlanStats returns the same totals and material quantities, those it
\* computes in binary64 included.
C22_RoomOrderIsIrrelevant ==
  /\ OrderIndependentIssues
  /\ OrderIndependentExactTotals
  /\ OrderDone =>
       \A f \in RoomOrders(Len(InputRooms)) :
         calculateFlooring64(Reordered(f).floor.rooms, config) = flooring64[1]

----------------------------------------------------------------------------
(* Budget lines *)

LineIsConsistent(line) == line.total = RMul(line.quantity, line.unitPrice)

\* the two lines whose quantity is shown rounded up to a tenth
ShownInTenths == {<<"Argamassa de assentamento">>} \cup
                 {BudgetLines[i].item : i \in {j \in 1..Len(BudgetLines) :
                                                  BudgetLines[j].unit = "m²"}}

\* every line but the mortar and the tiles is its quantity times its unit price
OtherLinesConsistent ==
  StatsDone =>
    \A i \in 1..Len(BudgetLines) :
      BudgetLines[i].item \notin ShownInTenths => LineIsConsistent(BudgetLines[i])

\* C24: the total of every budget line is its displayed quantity times its unit price.
C24_LineTotalIsQuantityTimesPrice ==
  StatsDone => \A i \in 1..Len(BudgetLines) : LineIsConsistent(BudgetLines[i])

----------------------------------------------------------------------------
(* Wall lengths in the geometry *)

\* |x2 - x1| + |y2 - y1|
SegmentLength(w) == RAdd(RAbs(RSub(w.x2, w.x1)), RAbs(RSub(w.y2, w.y1)))

\* the room's effective dimension along a side
DimensionAlong(room, side) ==
  IF side \in {"north", "south"} THEN EffectiveWidth(room) ELSE EffectiveHeight(room)

\* C30: as claimed: every wall's reported length is the length of its own segment.
C30_LengthIsSegmentLength ==
  GeometryDone =>
    \A k \in RoomIndices, side \in SideSet :
      GeometryRoom(k).walls[side].length = SegmentLength(GeometryRoom(k).walls[side])

\* C30, amended: every wall's reported length is the wall's own length (0 when absent)
\* times the scale, while its segment is as long as the room's effective width or height
\* times the scale: the two agree for a wall as long as the room, and the reported
\* length is the smaller for the shorter of two opposite walls and for an absent length.
C30_LengthIsOwnLengthTimesScale ==
  GeometryDone =>
    \A k \in RoomIndices, side \in SideSet :
      LET own == LengthOrZero(InputRooms[k].walls[side])
          along == DimensionAlong(InputRooms[k], side)
          w == GeometryRoom(k).walls[side]
      IN  /\ w.length = Times(own, PlanScale)
          /\ SegmentLength(w) = RAbs(Times(along, PlanScale))
          /\ (own = along /\ own >= 0) => w.length = SegmentLength(w)
          /\ (own < along /\ own >= 0) => RLess(w.length, SegmentLength(w))

\* scale 1/2, north 350 against south 400 and east absent against west 250: north is
\* reported 175 long on a segment of 200, east 0 long on a segment of 125, south 200 on 200
C30_Witness ==
  /\ GeometryDone
  /\ floorPlan.scale = Some(Rat(1, 2))
  /\ \E k \in RoomIndices :
       /\ InputRooms[k].walls.north.length = Some(350)
       /\ InputRooms[k].walls.south.length = Some(400)
       /\ InputRooms[k].walls.east.length = None
       /\ GeometryRoom(k).walls.north.length = RInt(175)
       /\ SegmentLength(GeometryRoom(k).walls.north) = RInt(200)
       /\ GeometryRoom(k).walls.south.length = RInt(200)
       /\ SegmentLength(GeometryRoom(k).walls.south) = RInt(200)
       /\ GeometryRoom(k).walls.east.length = RInt(0)
       /\ SegmentLength(GeometryRoom(k).walls.east) = RInt(125)

-----------------------------------------------------------------------------
(* The editor: floorPlanReducer and the actions dispatched to it *)

MaxDispatches == 3

MaxEditorRooms == 2

MaxEditorOpenings == 2

\* { ...old, ...new }
Spread(old, new) ==
  [f \in (DOMAIN old) \cup (DOMAIN new) |-> IF f \in DOMAIN new THEN new[f] ELSE old[f]]

createEmptyFloorPlan ==
  [version |-> "0.3", unit |-> "cm", scale |-> Rat(1, 5),
   defaults |-> Some([wall   |-> Some([height |-> Some(280), thickness |-> Some(15)]),
                      door   |-> Some([width |-> Some(80), height |-> Some(210)]),
                      window |-> Some([width |-> Some(120), height |-> Some(120),
                                       fromFloor |-> Some(100)])]),
   floor |-> [id |-> "terreo", name |-> "Terreo", rooms |-> <<>>, elements |-> <<>>,
              furniture |-> Some(<<>>)]]

\* `room-${counter}`
RoomIdOf(counter) ==
  <<"room-1", "room-2", "room-3", "room-4", "room-5", "room-6", "room-7">>[counter]

\* an id no room of the editor ever has
StaleRoomId == "room-9"

EditorRoom(id) ==
  IF id = "room-1"
  THEN [MkRoom(Some("Sala"), 0, 0,
               PlainWall(Some(400)), PlainWall(Some(300)),
               PlainWall(Some(400)), PlainWall(Some(300))) EXCEPT !.id = id]
  ELSE [MkRoom(Some("Cozinha"), 400, 0,
               MkWall(Some(300), None, None, Some(<<MkOpening("door", 50, None, None)>>)),
               PlainWall(Some(300)),
               PlainWall(Some(300)),
               MkWall(Some(300), None, Some(FALSE), None)) EXCEPT !.id = id]

EditorFurniture ==
  [id |-> "furniture-1", templateId |-> "sofa", position |-> [x |-> 20, y |-> 30],
   rotation |-> 0]

\* a plan with two rooms and a piece of furniture, as handed to the provider
LoadedFloorPlan ==
  [createEmptyFloorPlan EXCEPT
     !.floor.rooms = <<EditorRoom("room-1"), EditorRoom("room-2")>>,
     !.floor.furniture = Some(<<EditorFurniture>>)]

\* a plan file written before furniture existed: floor.furniture is absent
ImportedFloorPlan ==
  [createEmptyFloorPlan EXCEPT
     !.version = "0.2",
     !.defaults = None,
     !.floor.rooms = <<EditorRoom("room-2")>>,
     !.floor.furniture = None]

InitialFloorPlans == {createEmptyFloorPlan, LoadedFloorPlan}

\* the state useReducer starts from: initialFloorPlan ?? createEmptyFloorPlan()
InitialState(initialFloorPlan) ==
  [floorPlan |-> initialFloorPlan, selectedRoomId |-> None, selectedWallSide |-> None,
   selectedFurnitureId |-> None, isDirty |-> FALSE]

\* an edit that forgets the flag
Edited_KeepsFlag(state, plan) == [state EXCEPT !.floorPlan = plan]

\* { ...state, floorPlan: plan, isDirty: true }, the shape of every case that edits the plan

Edited(state, plan) == [state EXCEPT !.floorPlan = plan, !.isDirty = TRUE]

\* the wall that UPDATE_WALL, ADD_OPENING, UPDATE_OPENING and DELETE_OPENING put in place
\* of room.walls[side]
NewWall(wall, action) ==
  LET openings == Nullish(wall.openings, <<>>)
      index    == action.payload.index
  IN  CASE action.type = "UPDATE_WALL" ->
             Spread(wall, action.payload.wall)
        [] action.type = "ADD_OPENING" ->
             [wall EXCEPT !.openings = Some(Append(openings, action.payload.opening))]
        [] action.type = "UPDATE_OPENING" ->
             [wall EXCEPT !.openings =
                Some([i \in 1..Len(openings) |->
                        IF i - 1 = index
                        THEN Spread(openings[i], action.payload.opening)
                        ELSE openings[i]])]
        [] action.type = "DELETE_OPENING" ->
             [wall EXCEPT !.openings =
                Some([i \in 1..(Len(openings) - (IF index \in 0..(Len(openings) - 1)
                                                  THEN 1 ELSE 0)) |->
                        IF i - 1 < index \/ index < 0
                        THEN openings[i] ELSE openings[i + 1]])]

\* rooms.map(room => room.id !== roomId ? room : every wall replaced): a variant that rebuilds all four walls
RoomsWithWall_AllSides(rooms, action) ==
  [k \in 1..Len(rooms) |->
     IF rooms[k].id # action.payload.roomId
     THEN rooms[k]
     ELSE [rooms[k] EXCEPT !.walls =
             [side \in DOMAIN @ |-> NewWall(@[side], action)]]]

\* rooms.map(room => room.id !== roomId ? room : {...room, walls: {...room.walls, [side]: w}})
RoomsWithWall(rooms, action) ==
  [k \in 1..Len(rooms) |->
     IF rooms[k].id # action.payload.roomId
     THEN rooms[k]
     ELSE [rooms[k] EXCEPT !.walls[action.payload.side] = NewWall(@, action)]]

floorPlanReducer(state, action) ==
  LET plan      == state.floorPlan
      rooms     == plan.floor.rooms
      furniture == Nullish(plan.floor.furniture, <<>>)
      payload   == action.payload
      WithRooms(rs)     == Edited(state, [plan EXCEPT !.floor.rooms = rs])
      WithFurniture(fs) == Edited(state, [plan EXCEPT !.floor.furniture = Some(fs)])
  IN  CASE action.type = "SET_FLOOR_PLAN" ->
             [state EXCEPT
                !.floorPlan = [payload EXCEPT
                                 !.floor.furniture = Some(Nullish(@, <<>>))],
                !.selectedRoomId = None,
                !.selectedWallSide = None,
                !.selectedFurnitureId = None,
                !.isDirty = FALSE]
        [] action.type = "SELECT_ROOM" ->
             [state EXCEPT
                !.selectedRoomId = payload,
                !.selectedWallSide = None,
                !.selectedFurnitureId = None]
        [] action.type = "SELECT_WALL" ->
             [state EXCEPT
                !.selectedRoomId = IF payload = None THEN @ ELSE Some(payload[1].roomId),
                !.selectedWallSide = IF payload = None THEN None ELSE Some(payload[1].side),
                !.selectedFurnitureId = None]
        [] action.type = "SELECT_FURNITURE" ->
             [state EXCEPT
                !.selectedFurnitureId = payload,
                !.selectedRoomId = None,
                !.selectedWallSide = None]
        [] action.type = "ADD_ROOM" ->
             [WithRooms(Append(rooms, payload)) EXCEPT
                !.selectedRoomId = Some(payload.id),
                !.selectedFurnitureId = None]
        [] action.type = "UPDATE_ROOM" ->
             WithRooms([k \in 1..Len(rooms) |->
                          IF rooms[k].id = payload.id
                          THEN Spread(rooms[k], payload.room)
                          ELSE rooms[k]])
        [] action.type = "DELETE_ROOM" ->
             [WithRooms(SelectSeq(rooms, LAMBDA room : room.id # payload)) EXCEPT
                !.selectedRoomId = IF @ = Some(payload) THEN None ELSE @]
        [] action.type \in {"UPDATE_WALL", "ADD_OPENING", "UPDATE_OPENING",
                            "DELETE_OPENING"} ->
             WithRooms(RoomsWithWall(rooms, action))
        [] action.type = "UPDATE_DEFAULTS" ->
             Edited(state,
                    [plan EXCEPT !.defaults =
                       Some(Spread(Nullish(@, [wall |-> None, door |-> None,
                                               window |-> None]),
                                   payload))])
        [] action.type = "UPDATE_CONFIG" ->
             Edited(state, Spread(plan, payload))
        [] action.type = "ADD_FURNITURE" ->
             [WithFurniture(Append(furniture, payload)) EXCEPT
                !.selectedFurnitureId = Some(payload.id),
                !.selectedRoomId = None,
                !.selectedWallSide = None]
        [] action.type = "UPDATE_FURNITURE" ->
             WithFurniture([k \in 1..Len(furniture) |->
                              IF furniture[k].id = payload.id
                              THEN Spread(furniture[k], payload.furniture)
                              ELSE furniture[k]])
        [] action.type = "DELETE_FURNITURE" ->
             [WithFurniture(SelectSeq(furniture, LAMBDA f : f.id # payload)) EXCEPT
                !.selectedFurnitureId = IF @ = Some(payload) THEN None ELSE @]
        [] action.type = "MOVE_FURNITURE" ->
             WithFurniture([k \in 1..Len(furniture) |->
                              IF furniture[k].id = payload.id
                              THEN [furniture[k] EXCEPT !.position = payload.position]
                              ELSE furniture[k]])
        [] action.type = "MARK_CLEAN" ->
             [state EXCEPT !.isDirty = FALSE]
        [] OTHER -> state

InitEditor ==
  /\ \E initialFloorPlan \in InitialFloorPlans :
       /\ editorState = InitialState(initialFloorPlan)
       /\ cleanPlan = initialFloorPlan
  /\ dispatched = None
  /\ dispatchCount = 0
  /\ floorPlan = None
  /\ config = None
  /\ geometry = None
  /\ issues = None
  /\ stats = None
  /\ resolvedWalls = None
  /\ history = None
  /\ flooring64 = None
  /\ storage = None
  /\ clock = None
  /\ projectsCreated = None
  /\ lastCall = None
  /\ callCount = None

\* dispatch(action): the reducer's result becomes the state.  cleanPlan records the plan as
\* it is right after the latest SET_FLOOR_PLAN or MARK_CLEAN.
Dispatch(action) ==
  /\ dispatchCount < MaxDispatches
  /\ editorState' = floorPlanReducer(editorState, action)
  /\ dispatched' = Some(action)
  /\ dispatchCount' = dispatchCount + 1
  /\ cleanPlan' = IF action.type \in {"SET_FLOOR_PLAN", "MARK_CLEAN"}
                  THEN editorState'.floorPlan
                  ELSE cleanPlan
  /\ UNCHANGED <<floorPlan, config, geometry, issues, stats, resolvedWalls, history,
                 flooring64, storage, clock, projectsCreated, lastCall, callCount>>

EditorRooms == editorState.floorPlan.floor.rooms

PresentRoomIds == {EditorRooms[k].id : k \in 1..Len(EditorRooms)}

\* room ids a wall or opening edit is addressed to: the rooms on screen, and one that is
\* gone by the time the edit arrives
AddressedRoomIds == PresentRoomIds \cup {StaleRoomId}

EditedSides == {"north", "west"}

SetFloorPlan ==
  \E plan \in {createEmptyFloorPlan, ImportedFloorPlan} :
    Dispatch([type |-> "SET_FLOOR_PLAN", payload |-> plan])

SelectRoom ==
  \E id \in {None} \cup {Some(r) : r \in PresentRoomIds} :
    Dispatch([type |-> "SELECT_ROOM", payload |-> id])

\* selectWall(roomId, side) is called from a wall of a room on screen
SelectWall ==
  \E target \in {None} \cup {Some([roomId |-> r, side |-> s]) :
                               r \in PresentRoomIds, s \in EditedSides} :
    Dispatch([type |-> "SELECT_WALL", payload |-> target])

SelectFurniture ==
  \E id \in {None, Some(EditorFurniture.id)} :
    Dispatch([type |-> "SELECT_FURNITURE", payload |-> id])

\* the first of room-(n+1), room-(n+2), ... that no room of the n present has
generateRoomId ==
  LET first == Len(EditorRooms) + 1
      free(counter) == RoomIdOf(counter) \notin PresentRoomIds
  IN  RoomIdOf(CHOOSE counter \in first..(2 * first) :
                 /\ free(counter)
                 /\ \A earlier \in first..(counter - 1) : ~free(earlier))

AddRoom ==
  /\ Len(EditorRooms) < MaxEditorRooms
  /\ Dispatch([type |-> "ADD_ROOM", payload |-> EditorRoom(generateRoomId)])

UpdateRoom ==
  \E id \in AddressedRoomIds :
    Dispatch([type |-> "UPDATE_ROOM",
              payload |-> [id |-> id, room |-> [position |-> [x |-> 50, y |-> 0]]]])

DeleteRoom ==
  \E id \in PresentRoomIds :
    Dispatch([type |-> "DELETE_ROOM", payload |-> id])

UpdateWall ==
  \E id \in AddressedRoomIds, side \in EditedSides :
    Dispatch([type |-> "UPDATE_WALL",
              payload |-> [roomId |-> id, side |-> side,
                           wall |-> [length |-> Some(500)]]])

AddOpening ==
  \E id \in AddressedRoomIds, side \in EditedSides :
    /\ \A k \in 1..Len(EditorRooms) :
         Len(Nullish(EditorRooms[k].walls[side].openings, <<>>)) < MaxEditorOpenings
    /\ Dispatch([type |-> "ADD_OPENING",
                 payload |-> [roomId |-> id, side |-> side,
                              opening |-> MkOpening("window", 100, Some(120), None)]])

UpdateOpening ==
  \E id \in AddressedRoomIds, side \in EditedSides, index \in {0, 1} :
    Dispatch([type |-> "UPDATE_OPENING",
              payload |-> [roomId |-> id, side |-> side, index |-> index,
                           opening |-> [width |-> Some(90)]]])

DeleteOpening ==
  \E id \in AddressedRoomIds, side \in EditedSides, index \in {0, 1} :
    Dispatch([type |-> "DELETE_OPENING",
              payload |-> [roomId |-> id, side |-> side, index |-> index]])

UpdateDefaults ==
  Dispatch([type |-> "UPDATE_DEFAULTS",
            payload |-> [wall |-> Some([height |-> Some(300), thickness |-> None])]])

UpdateConfig ==
  Dispatch([type |-> "UPDATE_CONFIG", payload |-> [scale |-> Rat(1, 2)]])

AddFurniture ==
  /\ Len(Nullish(editorState.floorPlan.floor.furniture, <<>>)) = 0
  /\ Dispatch([type |-> "ADD_FURNITURE", payload |-> EditorFurniture])

UpdateFurniture ==
  Dispatch([type |-> "UPDATE_FURNITURE",
            payload |-> [id |-> EditorFurniture.id, furniture |-> [rotation |-> 90]]])

DeleteFurniture ==
  Dispatch([type |-> "DELETE_FURNITURE", payload |-> EditorFurniture.id])

MoveFurniture ==
  Dispatch([type |-> "MOVE_FURNITURE",
            payload |-> [id |-> EditorFurniture.id, position |-> [x |-> 120, y |-> 30]]])

MarkClean ==
  Dispatch([type |-> "MARK_CLEAN"])

NextEditor ==
  \/ SetFloorPlan
  \/ SelectRoom
  \/ SelectWall
  \/ SelectFurniture
  \/ AddRoom
  \/ UpdateRoom
  \/ DeleteRoom
  \/ UpdateWall
  \/ AddOpening
  \/ UpdateOpening
  \/ DeleteOpening
  \/ UpdateDefaults
  \/ UpdateConfig
  \/ AddFurniture
  \/ UpdateFurniture
  \/ DeleteFurniture
  \/ MoveFurniture
  \/ MarkClean

SpecEditor == InitEditor /\ [][NextEditor]_vars

-----------------------------------------------------------------------------
(* Wall and opening edits *)

WallActionTypes == {"UPDATE_WALL", "ADD_OPENING", "UPDATE_OPENING", "DELETE_OPENING"}

\* what a room keeps when only its wall on `side` is replaced
SameButWall(before, after, side) ==
  /\ after.id = before.id
  /\ after.name = before.name
  /\ after.position = before.position
  /\ \A other \in SideSet \ {side} : after.walls[other] = before.walls[other]

-----------------------------------------------------------------------------
(* Selection *)

\* C25: in every state the reducer reaches, a selected wall side comes with a selected
\* room that is present in the plan.
C25_WallSelectionImpliesRoomSelection ==
  editorState.selectedWallSide # None =>
    /\ editorState.selectedRoomId # None
    /\ editorState.selectedRoomId[1] \in PresentRoomIds

-----------------------------------------------------------------------------
(* The dirty flag *)

SelectionActionTypes == {"SELECT_ROOM", "SELECT_WALL", "SELECT_FURNITURE"}

-----------------------------------------------------------------------------
(* Project storage: the projects, the current project id and the settings kept in
   localStorage, and the functions that read and write them *)

MAX_VERSIONS == 10

MaxCalls == 3

MaxClock == 1

MaxProjects == 2

MaxStoredMaxVersions == 2

\* the two values of a number field that are no rational: Rat(n, d) has d > 0
NaN == [n |-> 0, d |-> 0]

null == [n |-> 0, d |-> -1]

\* JSON.parse(JSON.stringify(floorPlan)): a number that is not finite comes back as null
JsonClone(plan) == [plan EXCEPT !.scale = IF @ = NaN THEN null ELSE @]

\* a plan whose scale field was typed over with something that is not a number
UnscaledFloorPlan == [LoadedFloorPlan EXCEPT !.scale = NaN]

StoragePlans == {createEmptyFloorPlan, UnscaledFloorPlan}

\* a project name and the number of times " (copia)" was appended to it
ProjectName(text) == [text |-> text, copies |-> 0]

CopyName(name) == [name EXCEPT !.copies = @ + 1]

\* what JSON.parse(localStorage.getItem(STORAGE_KEY)) gives back for a list that was stored
Stored(projects) ==
  [k \in 1..Len(projects) |->
     [projects[k] EXCEPT
        !.floorPlan = JsonClone(@),
        !.versions = IF @ = None THEN None
                     ELSE Some([i \in 1..Len(@[1]) |->
                                  [@[1][i] EXCEPT !.floorPlan = JsonClone(@)]])]]

\* projects.findIndex(p => p.id === id), counted from 1, 0 when there is none
FindIndex(projects, id) ==
  IF \E k \in 1..Len(projects) : projects[k].id = id
  THEN CHOOSE k \in 1..Len(projects) :
         /\ projects[k].id = id
         /\ \A j \in 1..(k - 1) : projects[j].id # id
  ELSE 0

getSettings(st) ==
  Nullish(st.settings, [autoSaveEnabled |-> TRUE, autoSaveInterval |-> 30,
                        maxVersions |-> MAX_VERSIONS])

getProject(st, id) ==
  IF FindIndex(st.projects, id) = 0 THEN None ELSE Some(st.projects[FindIndex(st.projects, id)])

\* localStorage.setItem(CURRENT_PROJECT_KEY, id), or removeItem for null
setCurrentProjectId(st, id) == [st EXCEPT !.currentProjectId = id]

\* a variant of saveProject: saving leaves the current project as it was
saveProject_KeepsCurrent(st, now, newId, plan, name, existingId) ==
  LET projects == st.projects
      index    == IF existingId = None THEN 0 ELSE FindIndex(projects, existingId[1])
      updated  == [projects[index] EXCEPT
                     !.name = name, !.updatedAt = now, !.floorPlan = plan]
      created  == [id |-> newId, name |-> name, createdAt |-> now, updatedAt |-> now,
                   floorPlan |-> plan, versions |-> None]
  IN  IF index # 0
      THEN [storage |-> [st EXCEPT !.projects = Stored([projects EXCEPT ![index] = updated])],
            result  |-> updated]
      ELSE [storage |-> [st EXCEPT !.projects = Stored(Append(projects, created))],
            result  |-> created]

saveProject(st, now, newId, plan, name, existingId) ==
  LET projects == st.projects
      index    == IF existingId = None THEN 0 ELSE FindIndex(projects, existingId[1])
      updated  == [projects[index] EXCEPT
                     !.name = name, !.updatedAt = now, !.floorPlan = plan]
      created  == [id |-> newId, name |-> name, createdAt |-> now, updatedAt |-> now,
                   floorPlan |-> plan, versions |-> None]
  IN  IF index # 0
      THEN [storage |-> setCurrentProjectId(
                          [st EXCEPT !.projects = Stored([projects EXCEPT ![index] = updated])],
                          existingId),
            result  |-> updated]
      ELSE [storage |-> setCurrentProjectId(
                          [st EXCEPT !.projects = Stored(Append(projects, created))],
                          Some(newId)),
            result  |-> created]

deleteProject(st, id) ==
  LET filtered == SelectSeq(st.projects, LAMBDA p : p.id # id)
  IN  IF Len(filtered) = Len(st.projects)
      THEN [storage |-> st, result |-> FALSE]
      ELSE [storage |-> IF st.currentProjectId = Some(id)
                        THEN setCurrentProjectId([st EXCEPT !.projects = filtered], None)
                        ELSE [st EXCEPT !.projects = filtered],
            result  |-> TRUE]

renameProject(st, now, id, newName) ==
  LET index == FindIndex(st.projects, id)
  IN  IF index = 0
      THEN [storage |-> st, result |-> FALSE]
      ELSE [storage |-> [st EXCEPT !.projects[index].name = newName,
                                   !.projects[index].updatedAt = now],
            result  |-> TRUE]

duplicateProject(st, now, newId, id) ==
  LET project == getProject(st, id)
  IN  IF project = None
      THEN [storage |-> st, result |-> None]
      ELSE LET saved == saveProject(st, now, newId, JsonClone(project[1].floorPlan),
                                    CopyName(project[1].name), None)
           IN  [storage |-> saved.storage, result |-> Some(saved.result)]

autoSaveProject(st, now, plan) ==
  LET index == IF st.currentProjectId = None THEN 0
               ELSE FindIndex(st.projects, st.currentProjectId[1])
  IN  IF index = 0
      THEN [storage |-> st, result |-> None]
      ELSE [storage |-> [st EXCEPT !.projects =
                           Stored([@ EXCEPT ![index].floorPlan = plan,
                                            ![index].updatedAt = now])],
            result  |-> None]

\* a variant of createVersion: the list is cut to maxVersions + 1
createVersion_KeepsOneMore(st, now, projectId, description) ==
  LET index    == FindIndex(st.projects, projectId)
      project  == st.projects[index]
      settings == getSettings(st)
      version  == [id |-> now, timestamp |-> now,
                   floorPlan |-> JsonClone(project.floorPlan), description |-> description]
      unshifted == <<version>> \o Nullish(project.versions, <<>>)
      versions  == IF Len(unshifted) > settings.maxVersions + 1
                   THEN SubSeq(unshifted, 1, settings.maxVersions + 1)
                   ELSE unshifted
  IN  IF index = 0
      THEN [storage |-> st, result |-> None]
      ELSE [storage |-> [st EXCEPT !.projects[index].versions = Some(versions)],
            result  |-> Some(version)]

createVersion(st, now, projectId, description) ==
  LET index    == FindIndex(st.projects, projectId)
      project  == st.projects[index]
      settings == getSettings(st)
      version  == [id |-> now, timestamp |-> now,
                   floorPlan |-> JsonClone(project.floorPlan), description |-> description]
      unshifted == <<version>> \o Nullish(project.versions, <<>>)
      versions  == IF Len(unshifted) > settings.maxVersions
                   THEN SubSeq(unshifted, 1, settings.maxVersions)
                   ELSE unshifted
  IN  IF index = 0
      THEN [storage |-> st, result |-> None]
      ELSE [storage |-> [st EXCEPT !.projects[index].versions = Some(versions)],
            result  |-> Some(version)]

\* versions.find(v => v.id === versionId)
FindVersion(versions, versionId) ==
  IF \E i \in 1..Len(versions) : versions[i].id = versionId
  THEN Some(versions[CHOOSE i \in 1..Len(versions) :
                       /\ versions[i].id = versionId
                       /\ \A j \in 1..(i - 1) : versions[j].id # versionId])
  ELSE None

\* a variant of restoreVersion: the version is looked up again after the backup was taken
restoreVersion_FindsAfterBackup(st, now, projectId, versionId) ==
  LET backedUp == createVersion(st, now, projectId, Some("Backup antes de restaurar")).storage
      project  == getProject(backedUp, projectId)
      version  == IF project = None \/ project[1].versions = None
                  THEN None
                  ELSE FindVersion(project[1].versions[1], versionId)
      index    == FindIndex(backedUp.projects, projectId)
      restored == JsonClone(version[1].floorPlan)
  IN  IF getProject(st, projectId) = None \/ version = None
      THEN [storage |-> st, result |-> None]
      ELSE [storage |-> [backedUp EXCEPT !.projects[index].floorPlan = restored,
                                         !.projects[index].updatedAt = now],
            result  |-> Some(restored)]

restoreVersion(st, now, projectId, versionId) ==
  LET project  == getProject(st, projectId)
      version  == IF project = None \/ project[1].versions = None
                  THEN None
                  ELSE FindVersion(project[1].versions[1], versionId)
      backedUp == createVersion(st, now, projectId, Some("Backup antes de restaurar")).storage
      index    == FindIndex(backedUp.projects, projectId)
      restored == JsonClone(version[1].floorPlan)
  IN  IF version = None
      THEN [storage |-> st, result |-> None]
      ELSE IF index # 0
      THEN [storage |-> [backedUp EXCEPT !.projects[index].floorPlan = restored,
                                         !.projects[index].updatedAt = now],
            result  |-> Some(restored)]
      ELSE [storage |-> backedUp, result |-> None]

deleteVersion(st, projectId, versionId) ==
  LET index    == FindIndex(st.projects, projectId)
      versions == st.projects[index].versions
      filtered == SelectSeq(versions[1], LAMBDA v : v.id # versionId)
  IN  IF index = 0 \/ versions = None
      THEN [storage |-> st, result |-> FALSE]
      ELSE IF Len(filtered) = Len(versions[1])
      THEN [storage |-> st, result |-> FALSE]
      ELSE [storage |-> [st EXCEPT !.projects[index].versions = Some(filtered)],
            result  |-> TRUE]

\* localStorage before the first project is saved
EmptyStorage(settings) ==
  [projects |-> <<>>, currentProjectId |-> None, settings |-> settings]

\* localStorage as an earlier visit left it: one project saved and one version of it made
ReturningStorage(settings) ==
  createVersion(saveProject(EmptyStorage(settings), 0, 1, createEmptyFloorPlan,
                            ProjectName("Casa"), None).storage,
                0, 1, None).storage

\* a first visit or a later one, with no settings stored or the settings the panel wrote
InitStorage ==
  /\ \E settings \in {None} \cup
                     {Some([autoSaveEnabled |-> TRUE, autoSaveInterval |-> 30,
                            maxVersions |-> n]) : n \in 1..MaxStoredMaxVersions},
        returning \in BOOLEAN :
       /\ storage = IF returning THEN ReturningStorage(settings)
                                 ELSE EmptyStorage(settings)
       /\ projectsCreated = IF returning THEN 1 ELSE 0
  /\ clock = 0
  /\ lastCall = None
  /\ callCount = 0
  /\ floorPlan = None
  /\ config = None
  /\ geometry = None
  /\ issues = None
  /\ stats = None
  /\ resolvedWalls = None
  /\ history = None
  /\ flooring64 = None
  /\ editorState = None
  /\ dispatched = None
  /\ dispatchCount = None
  /\ cleanPlan = None

\* a call of one of the storage functions: what it stores and what it returns; lastCall
\* keeps the call together with what was stored before it
Call(fn, args, outcome) ==
  /\ callCount < MaxCalls
  /\ storage' = outcome.storage
  /\ lastCall' = Some([fn |-> fn, args |-> args, result |-> outcome.result,
                       before |-> storage])
  /\ callCount' = callCount + 1
  /\ UNCHANGED <<floorPlan, config, geometry, issues, stats, resolvedWalls, history,
                 flooring64, editorState, dispatched, dispatchCount, cleanPlan, clock>>

StoredProjectIds == {storage.projects[k].id : k \in 1..Len(storage.projects)}

\* an id no project was ever given
UnknownProjectId == 0

\* generateProjectId(): an id that no project has had
generateProjectId == projectsCreated + 1

\* Date.now() moves on between calls
Tick ==
  /\ clock < MaxClock
  /\ clock' = clock + 1
  /\ UNCHANGED <<floorPlan, config, geometry, issues, stats, resolvedWalls, history,
                 flooring64, editorState, dispatched, dispatchCount, cleanPlan, storage,
                 projectsCreated, lastCall, callCount>>

SaveProject ==
  \E plan \in StoragePlans, existingId \in {None, Some(UnknownProjectId)} \cup
                                           {Some(id) : id \in StoredProjectIds} :
    /\ (existingId = None \/ existingId[1] \notin StoredProjectIds)
         => Len(storage.projects) < MaxProjects
    /\ Call("saveProject", [floorPlan |-> plan, existingId |-> existingId],
            saveProject(storage, clock, generateProjectId, plan, ProjectName("Casa"),
                        existingId))
    /\ projectsCreated' = IF existingId # None /\ existingId[1] \in StoredProjectIds
                          THEN projectsCreated ELSE projectsCreated + 1

DeleteProject ==
  \E id \in StoredProjectIds \cup {UnknownProjectId} :
    /\ Call("deleteProject", [id |-> id], deleteProject(storage, id))
    /\ UNCHANGED projectsCreated

RenameProject ==
  \E id \in StoredProjectIds \cup {UnknownProjectId} :
    /\ Call("renameProject", [id |-> id],
            renameProject(storage, clock, id, ProjectName("Casa nova")))
    /\ UNCHANGED projectsCreated

DuplicateProject ==
  \E id \in StoredProjectIds \cup {UnknownProjectId} :
    /\ id \in StoredProjectIds => Len(storage.projects) < MaxProjects
    /\ Call("duplicateProject", [id |-> id],
            duplicateProject(storage, clock, generateProjectId, id))
    /\ projectsCreated' = IF id \in StoredProjectIds
                          THEN projectsCreated + 1 ELSE projectsCreated

AutoSaveProject ==
  \E plan \in StoragePlans :
    /\ Call("autoSaveProject", [floorPlan |-> plan],
            autoSaveProject(storage, clock, plan))
    /\ UNCHANGED projectsCreated

CreateVersion ==
  \E id \in StoredProjectIds \cup {UnknownProjectId} :
    /\ Call("createVersion", [projectId |-> id],
            createVersion(storage, clock, id, None))
    /\ UNCHANGED projectsCreated

\* version ids of the stored projects, and one that no version has
KnownVersionIds ==
  UNION {{Nullish(storage.projects[k].versions, <<>>)[i].id :
            i \in 1..Len(Nullish(storage.projects[k].versions, <<>>))} :
           k \in 1..Len(storage.projects)} \cup {MaxClock + 1}

RestoreVersion ==
  \E id \in StoredProjectIds \cup {UnknownProjectId}, versionId \in KnownVersionIds :
    /\ Call("restoreVersion", [projectId |-> id, versionId |-> versionId],
            restoreVersion(storage, clock, id, versionId))
    /\ UNCHANGED projectsCreated

DeleteVersion ==
  \E id \in StoredProjectIds \cup {UnknownProjectId}, versionId \in KnownVersionIds :
    /\ Call("deleteVersion", [projectId |-> id, versionId |-> versionId],
            deleteVersion(storage, id, versionId))
    /\ UNCHANGED projectsCreated

NextStorage ==
  \/ Tick
  \/ SaveProject
  \/ DeleteProject
  \/ RenameProject
  \/ DuplicateProject
  \/ AutoSaveProject
  \/ CreateVersion
  \/ RestoreVersion
  \/ DeleteVersion

SpecStorage == InitStorage /\ [][NextStorage]_vars

-----------------------------------------------------------------------------
(* Restoring a version *)

\* the versions of a stored project, [] when it has none
VersionsOf(project) == Nullish(project.versions, <<>>)

IsPrefix(short, long) ==
  /\ Len(short) <= Len(long)
  /\ \A i \in 1..Len(short) : short[i] = long[i]

\* C27: restoreVersion(projectId, versionId) on an existing project and version puts a
\* snapshot of the plan stored so far in front of the version list as the backup, then
\* makes the project's plan a copy of the chosen version's plan and returns it, also when
\* the chosen version is the oldest one and the backup pushes it out of the list; when the
\* project or the version does not exist it returns null and storage stays as it was.
C27_RestoreBacksUpThenRestores ==
  [][(callCount' # callCount /\ lastCall'[1].fn = "restoreVersion") =>
       LET projectId == lastCall'[1].args.projectId
           versionId == lastCall'[1].args.versionId
           before    == getProject(storage, projectId)
           chosen    == IF before = None THEN None
                        ELSE FindVersion(VersionsOf(before[1]), versionId)
           after     == getProject(storage', projectId)
       IN  IF chosen = None
           THEN /\ lastCall'[1].result = None
                /\ storage' = storage
           ELSE /\ after # None
                /\ VersionsOf(after[1]) # <<>>
                /\ VersionsOf(after[1])[1].floorPlan = before[1].floorPlan
                /\ VersionsOf(after[1])[1].timestamp = clock
                /\ IsPrefix(Tail(VersionsOf(after[1])), VersionsOf(before[1]))
                /\ after[1].floorPlan = chosen[1].floorPlan
                /\ lastCall'[1].result = Some(chosen[1].floorPlan)
                /\ \A k \in 1..Len(storage.projects) :
                     storage.projects[k].id # projectId =>
                       storage'.projects[k] = storage.projects[k]
                /\ storage'.currentProjectId = storage.currentProjectId]_vars

\* the only version of a project was restored under a limit of one version: the backup of
\* the plan stored until then is the one version left, and the project holds the other plan
C27_Witness ==
  /\ lastCall # None
  /\ lastCall[1].fn = "restoreVersion"
  /\ lastCall[1].result # None
  /\ getSettings(storage).maxVersions = 1
  /\ LET project == getProject(storage, lastCall[1].args.projectId)[1]
     IN  /\ Len(VersionsOf(project)) = 1
         /\ VersionsOf(project)[1].id # lastCall[1].args.versionId
         /\ VersionsOf(project)[1].description = Some("Backup antes de restaurar")
         /\ project.floorPlan = lastCall[1].result[1]
         /\ project.floorPlan # VersionsOf(project)[1].floorPlan

-----------------------------------------------------------------------------
(* The version limit *)

NewestFirst(versions) ==
  \A i, j \in 1..Len(versions) : i < j => versions[i].timestamp >= versions[j].timestamp

\* the version list of the project with this id, or None when there is no such project
VersionListOf(st, id) ==
  IF getProject(st, id) = None THEN None ELSE Some(VersionsOf(getProject(st, id)[1]))

\* C28: with maxVersions held at N, every project holds at most N versions, newest first;
\* createVersion on a project that holds N versions keeps the new version and the N - 1
\* newest of the old ones, dropping exactly the oldest; saveProject and autoSaveProject
\* leave the version list of every project as it was.
C28_VersionListIsBounded ==
  /\ [](\A k \in 1..Len(storage.projects) :
          /\ Len(VersionsOf(storage.projects[k])) <= getSettings(storage).maxVersions
          /\ NewestFirst(VersionsOf(storage.projects[k])))
  /\ [][callCount' # callCount =>
          LET fn == lastCall'[1].fn
              N  == getSettings(storage).maxVersions
          IN  /\ fn = "createVersion" =>
                   \A k \in 1..Len(storage.projects) :
                     (/\ storage.projects[k].id = lastCall'[1].args.projectId
                      /\ Len(VersionsOf(storage.projects[k])) = N)
                     => /\ Len(VersionsOf(storage'.projects[k])) = N
                        /\ VersionsOf(storage'.projects[k])[1] = lastCall'[1].result[1]
                        /\ Tail(VersionsOf(storage'.projects[k]))
                             = SubSeq(VersionsOf(storage.projects[k]), 1, N - 1)
              /\ fn \in {"saveProject", "autoSaveProject"} =>
                   \A k \in 1..Len(storage.projects) :
                     storage'.projects[k].versions = storage.projects[k].versions]_vars

\* createVersion was called on a project that already held maxVersions = 2 versions: the
\* new version is in front, the older one behind it was the newest before, and the oldest
\* is gone
C28_Witness ==
  /\ lastCall # None
  /\ lastCall[1].fn = "createVersion"
  /\ getSettings(storage).maxVersions = 2
  /\ LET id     == lastCall[1].args.projectId
         before == VersionListOf(lastCall[1].before, id)
         after  == VersionListOf(storage, id)
     IN  /\ before # None
         /\ Len(before[1]) = 2
         /\ Len(after[1]) = 2
         /\ after[1][1] = lastCall[1].result[1]
         /\ after[1][2] = before[1][1]
         /\ before[1][2] # after[1][2]

-----------------------------------------------------------------------------
(* The current project *)

ProjectIdsOf(st) == {st.projects[k].id : k \in 1..Len(st.projects)}

\* C29: the stored current-project id is unset or the id of a stored project.  saveProject
\* makes the project it saved current: the one named by existingId when that is a stored
\* project, a newly created one otherwise.  deleteProject of the current project unsets
\* the id, deleteProject of any other id leaves it as it was.
C29_CurrentProjectIsStored ==
  /\ [](storage.currentProjectId = None \/
        storage.currentProjectId[1] \in ProjectIdsOf(storage))
  /\ [][callCount' # callCount =>
          LET fn   == lastCall'[1].fn
              args == lastCall'[1].args
          IN  /\ fn = "saveProject" =>
                   /\ storage'.currentProjectId = Some(lastCall'[1].result.id)
                   /\ lastCall'[1].result.id \in ProjectIdsOf(storage')
                   /\ IF args.existingId # None /\
                         args.existingId[1] \in ProjectIdsOf(storage)
                      THEN /\ lastCall'[1].result.id = args.existingId[1]
                           /\ ProjectIdsOf(storage') = ProjectIdsOf(storage)
                      ELSE /\ lastCall'[1].result.id \notin ProjectIdsOf(storage)
                           /\ Len(storage'.projects) = Len(storage.projects) + 1
              /\ fn = "deleteProject" =>
                   /\ args.id \notin ProjectIdsOf(storage')
                   /\ storage'.currentProjectId =
                        IF storage.currentProjectId = Some(args.id)
                        THEN None ELSE storage.currentProjectId]_vars

\* the current project, the second of two, was deleted: no project is current and the
\* other project is still stored
C29_Witness ==
  /\ lastCall # None
  /\ lastCall[1].fn = "deleteProject"
  /\ lastCall[1].result = TRUE
  /\ lastCall[1].before.currentProjectId = Some(lastCall[1].args.id)
  /\ Len(lastCall[1].before.projects) = 2
  /\ storage.currentProjectId = None
  /\ Len(storage.projects) = 1

====
